---- MODULE Spec2Model ----
(***************************************************************************)
(* Shallow restore of kopia: the placeholder codec of fs/localfs           *)
(* (shallow_fs.go), the depth-bounded materializer and the reifier that    *)
(* use it, and the snapshot of a tree that holds placeholders.             *)
(*                                                                         *)
(* A file name is a sequence of characters, a path a sequence of names,    *)
(* the root being the empty path.  The local filesystem is a function from *)
(* the paths that exist to their nodes.                                    *)
(***************************************************************************)
EXTENDS Integers, Sequences, FiniteSets, TLC, Bags

VARIABLES
    fs,       \* the local filesystem: path -> node
    last,     \* the last codec or snapshot call: its arguments, result and the filesystem before it
    op,       \* the restore operation in progress
    work,     \* entries the materializer still has to copy
    open,     \* real directories begun and not yet finished
    hist      \* what has happened to the restored tree so far

vars == <<fs, last, op, work, open, hist>>

(***************************************************************************)
(* Bounds of the model.                                                    *)
(***************************************************************************)
\* The longest file name (in characters) the local filesystem accepts.
NameMax == 3
\* The largest finite --shallow depth tried.
MaxShallow == 2
\* The number of stray nodes a user may plant next to real entries.
MaxStray == 1
\* The largest number of levels one deepening adds, short of a full one.
MaxDeepen == 1
\* The number of units of time in a microsecond.
Micro == 4

(***************************************************************************)
(* Names and paths.                                                        *)
(***************************************************************************)
ShallowEntrySuffix == <<".kopia-entry">>

Root == <<>>

Last(s) == s[Len(s)]

Parent(p) == SubSeq(p, 1, Len(p) - 1)

\* filepath.Join(dir, name)
Join(dir, name) == Append(dir, name)

\* path + ShallowEntrySuffix: string concatenation onto the last name.
WithSuffix(p) == [p EXCEPT ![Len(p)] = @ \o ShallowEntrySuffix]

HasSuffix(n) ==
    /\ Len(n) >= Len(ShallowEntrySuffix)
    /\ SubSeq(n, Len(n) - Len(ShallowEntrySuffix) + 1, Len(n)) = ShallowEntrySuffix

TrimShallowSuffix(p) ==
    IF p # Root /\ HasSuffix(Last(p))
    THEN [p EXCEPT ![Len(p)] = SubSeq(@, 1, Len(@) - Len(ShallowEntrySuffix))]
    ELSE p

IsPrefix(p, q) == Len(p) <= Len(q) /\ SubSeq(q, 1, Len(p)) = p

(***************************************************************************)
(* Directory entries and their JSON form.  A file's content is a sequence  *)
(* of tokens; json.Encoder writes the object and a newline, json.Decoder   *)
(* reads the first value and leaves what follows it.                       *)
(***************************************************************************)
EntryTypeFile == "f"
EntryTypeDirectory == "d"
EntryTypeSymlink == "s"

DirEntry(n, t, o, m, sz, mt) ==
    [name |-> n, type |-> t, obj |-> o, mode |-> m, size |-> sz, mtime |-> mt]

ZeroEntry == DirEntry(<<>>, "", 0, 0, 0, 0)

Tok(k, n, t) == [key |-> k, num |-> n, txt |-> t]

FieldKeys == {"name", "type", "obj", "mode", "size", "mtime"}

\* An encoder that leaves the modification time out of the object.
EncodeNoMtime(de) ==
    << Tok("{", 0, <<>>),
       Tok("name", 0, de.name),
       Tok("type", 0, <<de.type>>),
       Tok("mode", de.mode, <<>>),
       Tok("size", de.size, <<>>),
       Tok("obj", de.obj, <<>>),
       Tok("}", 0, <<>>),
       Tok("\n", 0, <<>>) >>

Encode(de) ==
    << Tok("{", 0, <<>>),
       Tok("name", 0, de.name),
       Tok("type", 0, <<de.type>>),
       Tok("mode", de.mode, <<>>),
       Tok("size", de.size, <<>>),
       Tok("mtime", de.mtime, <<>>),
       Tok("obj", de.obj, <<>>),
       Tok("}", 0, <<>>),
       Tok("\n", 0, <<>>) >>

MaxOf(S) == CHOOSE x \in S : \A y \in S : y <= x
MinOf(S) == CHOOSE x \in S : \A y \in S : x <= y

\* The value the decoder leaves in field k: the last occurrence, or the zero value.
FieldTok(body, k) ==
    LET idx == {i \in 1..Len(body) : body[i].key = k}
    IN  IF idx = {} THEN Tok(k, 0, <<>>) ELSE body[MaxOf(idx)]

\* A decoder that does not fill in the permissions.
DecodeNoMode(b) ==
    LET closes == {i \in 1..Len(b) : b[i].key = "}"}
        close  == MinOf(closes)
        body   == SubSeq(b, 2, close - 1)
        ty     == FieldTok(body, "type").txt
    IN  IF b = <<>> \/ b[1].key # "{" \/ closes = {}
        THEN [ok |-> FALSE, de |-> ZeroEntry]
        ELSE IF \E i \in 1..Len(body) : body[i].key \notin FieldKeys
        THEN [ok |-> FALSE, de |-> ZeroEntry]
        ELSE [ok |-> TRUE,
              de |-> DirEntry(FieldTok(body, "name").txt,
                              IF ty = <<>> THEN "" ELSE ty[1],
                              FieldTok(body, "obj").num,
                              0,
                              FieldTok(body, "size").num,
                              FieldTok(body, "mtime").num)]

Decode(b) ==
    LET closes == {i \in 1..Len(b) : b[i].key = "}"}
        close  == MinOf(closes)
        body   == SubSeq(b, 2, close - 1)
        ty     == FieldTok(body, "type").txt
    IN  IF b = <<>> \/ b[1].key # "{" \/ closes = {}
        THEN [ok |-> FALSE, de |-> ZeroEntry]
        ELSE IF \E i \in 1..Len(body) : body[i].key \notin FieldKeys
        THEN [ok |-> FALSE, de |-> ZeroEntry]
        ELSE [ok |-> TRUE,
              de |-> DirEntry(FieldTok(body, "name").txt,
                              IF ty = <<>> THEN "" ELSE ty[1],
                              FieldTok(body, "obj").num,
                              FieldTok(body, "mode").num,
                              FieldTok(body, "size").num,
                              FieldTok(body, "mtime").num)]

(***************************************************************************)
(* The local filesystem.                                                   *)
(***************************************************************************)
\* The modification time the operating system gives a node it has just changed.
Now == 0

NoTarget == <<>>

FileNode(c, m, mt) == [kind |-> "file", content |-> c, mode |-> m, mtime |-> mt, target |-> NoTarget]
DirNode(m, mt) == [kind |-> "dir", content |-> <<>>, mode |-> m, mtime |-> mt, target |-> NoTarget]
LinkNode(t, m, mt) == [kind |-> "symlink", content |-> <<>>, mode |-> m, mtime |-> mt, target |-> t]

\* The path with every symbolic link in it followed, the last name included.
RECURSIVE RealPath(_, _)
RealPath(f, p) ==
    IF p = Root THEN Root
    ELSE LET q == Join(RealPath(f, Parent(p)), Last(p))
         IN  IF q \in DOMAIN f /\ f[q].kind = "symlink" THEN f[q].target ELSE q

\* The path with the links of its directory followed, and not its last name.
LPath(f, p) == IF p = Root THEN Root ELSE Join(RealPath(f, Parent(p)), Last(p))

\* os.Lstat(p) succeeds
Lstat(f, p) == p = Root \/ LPath(f, p) \in DOMAIN f

\* os.Lstat(p) succeeds and reports a directory
LstatIsDir(f, p) == p = Root \/ (LPath(f, p) \in DOMAIN f /\ f[LPath(f, p)].kind = "dir")

\* os.Stat(p) succeeds and reports a directory
StatIsDir(f, p) ==
    LET q == RealPath(f, p) IN q = Root \/ (q \in DOMAIN f /\ f[q].kind = "dir")

Stat(f, p) == LET q == RealPath(f, p) IN q = Root \/ q \in DOMAIN f

\* A change of the directory at d (a child created, replaced or removed) sets its mtime.
Touch(f, d) ==
    IF d \in DOMAIN f /\ f[d].kind = "dir" THEN [f EXCEPT ![d].mtime = Now] ELSE f

\* The node n put at the (resolved) path q.
Put(f, q, n) ==
    Touch([x \in DOMAIN f \cup {q} |-> IF x = q THEN n ELSE f[x]], Parent(q))

\* os.RemoveAll(p): the node at p and everything below it.
RemoveAll(f, p) ==
    LET q == LPath(f, p)
    IN  IF q \notin DOMAIN f THEN f
        ELSE Touch([x \in {y \in DOMAIN f : ~IsPrefix(q, y)} |-> f[x]], Parent(q))

\* ioutil.ReadFile(p)
ReadFile(f, p) ==
    LET q == RealPath(f, p)
    IN  IF q \in DOMAIN f /\ f[q].kind = "file"
        THEN [ok |-> TRUE, data |-> f[q].content]
        ELSE [ok |-> FALSE, data |-> <<>>]

\* os.MkdirAll(p, dirMode)
RECURSIVE MkdirAll(_, _)
MkdirAll(f, p) ==
    IF Stat(f, p)
    THEN [ok |-> StatIsDir(f, p), fs |-> f]
    ELSE LET up == MkdirAll(f, Parent(p))
         IN  IF ~up.ok \/ Lstat(up.fs, p)
             THEN [ok |-> FALSE, fs |-> up.fs]
             ELSE [ok |-> TRUE, fs |-> Put(up.fs, LPath(up.fs, p), DirNode(448, Now))]

\* atomic.WriteFile(p, data): a temporary file in p's directory, renamed onto p.
AtomicWriteFile(f, p, data) ==
    LET q == LPath(f, p)
    IN  IF ~StatIsDir(f, Parent(p)) \/ LstatIsDir(f, p)
        THEN [ok |-> FALSE, fs |-> f]
        ELSE [ok |-> TRUE, fs |-> Put(f, q, FileNode(data, 384, Now))]

(***************************************************************************)
(* The placeholder codec.                                                  *)
(***************************************************************************)
\* A placeholderPath whose default case is the file case.
placeholderPathDefaultFile(f, path, et) ==
    IF et = EntryTypeDirectory
    THEN LET dirpath == WithSuffix(path)
             made    == MkdirAll(f, dirpath)
         IN  IF made.ok
             THEN [ok |-> TRUE, fs |-> made.fs, path |-> Join(dirpath, ShallowEntrySuffix)]
             ELSE [ok |-> FALSE, fs |-> made.fs, path |-> Root]
    ELSE [ok |-> TRUE, fs |-> f, path |-> WithSuffix(path)]

\* A placeholderPath that makes the directory before it looks at the type.
placeholderPathMkdirFirst(f, path, et) ==
    LET dirpath == WithSuffix(path)
        made    == MkdirAll(f, dirpath)
    IN  IF et = EntryTypeFile
        THEN [ok |-> TRUE, fs |-> made.fs, path |-> WithSuffix(path)]
        ELSE IF et = EntryTypeDirectory
        THEN IF made.ok
             THEN [ok |-> TRUE, fs |-> made.fs, path |-> Join(dirpath, ShallowEntrySuffix)]
             ELSE [ok |-> FALSE, fs |-> made.fs, path |-> Root]
        ELSE [ok |-> FALSE, fs |-> f, path |-> Root]

\* A placeholderPath that gives a directory the placeholder path of a file.
placeholderPathDirAsFile(f, path, et) ==
    IF et \in {EntryTypeFile, EntryTypeDirectory}
    THEN [ok |-> TRUE, fs |-> f, path |-> WithSuffix(path)]
    ELSE [ok |-> FALSE, fs |-> f, path |-> Root]

\* A placeholderPath that forgets the suffix of a file placeholder.
placeholderPathNoSuffix(f, path, et) ==
    IF et = EntryTypeFile
    THEN [ok |-> TRUE, fs |-> f, path |-> path]
    ELSE IF et = EntryTypeDirectory
    THEN LET dirpath == WithSuffix(path)
             made    == MkdirAll(f, dirpath)
         IN  IF made.ok
             THEN [ok |-> TRUE, fs |-> made.fs, path |-> Join(dirpath, ShallowEntrySuffix)]
             ELSE [ok |-> FALSE, fs |-> made.fs, path |-> Root]
    ELSE [ok |-> FALSE, fs |-> f, path |-> Root]

placeholderPath(f, path, et) ==
    IF et = EntryTypeFile
    THEN [ok |-> TRUE, fs |-> f, path |-> WithSuffix(path)]
    ELSE IF et = EntryTypeDirectory
    THEN LET dirpath == WithSuffix(path)
             made    == MkdirAll(f, dirpath)
         IN  IF made.ok
             THEN [ok |-> TRUE, fs |-> made.fs, path |-> Join(dirpath, ShallowEntrySuffix)]
             ELSE [ok |-> FALSE, fs |-> made.fs, path |-> Root]
    ELSE [ok |-> FALSE, fs |-> f, path |-> Root]

\* A WriteShallowPlaceholder that writes the buffer before anything is encoded into it.
WriteShallowPlaceholderEmpty(f, path, de) ==
    LET mp == placeholderPath(f, path, de.type)
        wr == AtomicWriteFile(mp.fs, mp.path, <<>>)
    IN  IF ~mp.ok
        THEN [ok |-> FALSE, err |-> IF de.type \in {EntryTypeFile, EntryTypeDirectory}
                                    THEN "io" ELSE "UnsupportedEntryType",
              fs |-> mp.fs, path |-> Root]
        ELSE IF ~wr.ok
        THEN [ok |-> FALSE, err |-> "io", fs |-> wr.fs, path |-> Root]
        ELSE [ok |-> TRUE, err |-> "", fs |-> wr.fs, path |-> mp.path]

WriteShallowPlaceholder(f, path, de) ==
    LET mp == placeholderPath(f, path, de.type)
        wr == AtomicWriteFile(mp.fs, mp.path, Encode(de))
    IN  IF ~mp.ok
        THEN [ok |-> FALSE, err |-> IF de.type \in {EntryTypeFile, EntryTypeDirectory}
                                    THEN "io" ELSE "UnsupportedEntryType",
              fs |-> mp.fs, path |-> Root]
        ELSE IF ~wr.ok
        THEN [ok |-> FALSE, err |-> "io", fs |-> wr.fs, path |-> Root]
        ELSE [ok |-> TRUE, err |-> "", fs |-> wr.fs, path |-> mp.path]

\* A dirEntryFromPlaceholder that returns the fresh entry without decoding into it.
dirEntryFromPlaceholderUndecoded(f, path) ==
    LET b == ReadFile(f, path)
    IN  [ok |-> b.ok, de |-> ZeroEntry]

\* A dirEntryFromPlaceholder that returns what the decoder left whether or
\* not decoding failed.
dirEntryFromPlaceholderAnyJSON(f, path) ==
    LET b == ReadFile(f, path)
    IN  IF ~b.ok THEN [ok |-> FALSE, de |-> ZeroEntry]
        ELSE [ok |-> TRUE, de |-> Decode(b.data).de]

dirEntryFromPlaceholder(f, path) ==
    LET b == ReadFile(f, path)
    IN  IF ~b.ok THEN [ok |-> FALSE, de |-> ZeroEntry] ELSE Decode(b.data)

\* A result of ReadShallowPlaceholder: an entry, nil with no error, or an error.
Found(de) == [err |-> "", some |-> TRUE, de |-> de]
None == [err |-> "", some |-> FALSE, de |-> ZeroEntry]
Failed(e) == [err |-> e, some |-> FALSE, de |-> ZeroEntry]

\* ReadShallowPlaceholder deciding on the decoded placeholder before the corrupt case.
ReadShallowPlaceholderDecodeFirst(f, path) ==
    LET originalpresent == Lstat(f, path)
        php0 == WithSuffix(path)
        php  == IF Lstat(f, php0) /\ LstatIsDir(f, php0)
                THEN Join(php0, ShallowEntrySuffix) ELSE php0
        got  == dirEntryFromPlaceholder(f, php)
    IN  IF got.ok THEN Found(got.de)
        ELSE IF Lstat(f, php0) /\ originalpresent THEN Failed("Corrupt")
        ELSE IF originalpresent THEN None
        ELSE Failed("NotFound")

\* ReadShallowPlaceholder without the directory form of a placeholder.
ReadShallowPlaceholderFileOnly(f, path) ==
    LET originalpresent == Lstat(f, path)
        php0 == WithSuffix(path)
        got  == dirEntryFromPlaceholder(f, php0)
    IN  IF Lstat(f, php0) /\ originalpresent THEN Failed("Corrupt")
        ELSE IF got.ok THEN Found(got.de)
        ELSE IF originalpresent THEN None
        ELSE Failed("NotFound")

\* ReadShallowPlaceholder without the corrupt case.
ReadShallowPlaceholderNoCorrupt(f, path) ==
    LET originalpresent == Lstat(f, path)
        php0 == WithSuffix(path)
        php  == IF Lstat(f, php0) /\ LstatIsDir(f, php0)
                THEN Join(php0, ShallowEntrySuffix) ELSE php0
        got  == dirEntryFromPlaceholder(f, php)
    IN  IF got.ok THEN Found(got.de)
        ELSE IF originalpresent THEN None
        ELSE Failed("NotFound")

\* ReadShallowPlaceholder returning nil, nil where nothing was found.
ReadShallowPlaceholderNilWhenMissing(f, path) ==
    LET originalpresent == Lstat(f, path)
        php0 == WithSuffix(path)
        php  == IF Lstat(f, php0) /\ LstatIsDir(f, php0)
                THEN Join(php0, ShallowEntrySuffix) ELSE php0
        got  == dirEntryFromPlaceholder(f, php)
    IN  IF Lstat(f, php0) /\ originalpresent THEN Failed("Corrupt")
        ELSE IF got.ok THEN Found(got.de)
        ELSE None

\* A reader for which a path without a readable placeholder is always an error.
ReadShallowPlaceholderErrWhenReal(f, path) ==
    LET originalpresent == Lstat(f, path)
        php0 == WithSuffix(path)
        php  == IF Lstat(f, php0) /\ LstatIsDir(f, php0)
                THEN Join(php0, ShallowEntrySuffix) ELSE php0
        got  == dirEntryFromPlaceholder(f, php)
    IN  IF Lstat(f, php0) /\ originalpresent THEN Failed("Corrupt")
        ELSE IF got.ok THEN Found(got.de)
        ELSE Failed("NotFound")

ReadShallowPlaceholder(f, path) ==
    LET originalpresent == Lstat(f, path)
        php0 == WithSuffix(path)
        php  == IF Lstat(f, php0) /\ LstatIsDir(f, php0)
                THEN Join(php0, ShallowEntrySuffix) ELSE php0
        got  == dirEntryFromPlaceholder(f, php)
    IN  IF Lstat(f, php0) /\ originalpresent THEN Failed("Corrupt")
        ELSE IF got.ok THEN Found(got.de)
        ELSE IF originalpresent THEN None
        ELSE Failed("NotFound")

\* A PathIfPlaceholder that returns a path without the suffix as it is.
PathIfPlaceholderUnchanged(path) ==
    IF path # Root /\ HasSuffix(Last(path)) THEN TrimShallowSuffix(path) ELSE path

\* The empty string is the empty path.
PathIfPlaceholder(path) ==
    IF path # Root /\ HasSuffix(Last(path)) THEN TrimShallowSuffix(path) ELSE Root

(***************************************************************************)
(* The record of a call, kept so that its result can be compared with the  *)
(* filesystem it ran on.                                                   *)
(***************************************************************************)
Call(o, p, de, res, pre) == [op |-> o, path |-> p, de |-> de, res |-> res, pre |-> pre]

WriteResult(w) == [err |-> w.err, some |-> FALSE, de |-> ZeroEntry]

EmptyFs == [x \in {} |-> DirNode(0, 0)]

NoCall == Call("none", Root, ZeroEntry, None, EmptyFs)

IdleOp == [kind |-> "idle", shallow |-> 0, root |-> Root, err |-> ""]

\* The history of the restored tree: whether a restore has completed and at
\* which depth, the depth of the last deepening, the placeholders deepened
\* and removed since, the stray
\* placeholder nodes planted beside real entries, and which side of such a
\* pair was taken away again, and whether a snapshot of it has failed.
NoHist == [restored |-> FALSE, depth |-> 0, k |-> 0, deepened |-> {}, removed |-> {},
           planted |-> {}, cutReal |-> {}, cutPh |-> {}, snapFailed |-> FALSE]

\* The kind of the node at p, links not followed.
NodeKind(f, p) == IF LPath(f, p) \in DOMAIN f THEN f[LPath(f, p)].kind ELSE "absent"

(***************************************************************************)
(* The codec on its own: ReadShallowPlaceholder and                        *)
(* WriteShallowPlaceholder called on every small filesystem around one     *)
(* logical path.                                                           *)
(***************************************************************************)
CodecP == << <<"a">> >>
CodecT == << <<"t">> >>
CodecPaths == {CodecP, CodecT}

CodecEntries ==
    { DirEntry(<<"a">>, EntryTypeFile, 1, 420, 1, 5),
      DirEntry(<<"a">>, EntryTypeDirectory, 2, 493, 0, 6),
      DirEntry(<<"a">>, EntryTypeSymlink, 3, 511, 0, 7) }

Placeholdable == {e \in CodecEntries : e.type \in {EntryTypeFile, EntryTypeDirectory}}

\* What a file found at a placeholder's place may hold: nothing, no JSON, a
\* JSON object cut short, an empty object, an entry, an entry and more.
CodecContents ==
    { <<>>, <<Tok("junk", 0, <<>>)>>, <<Tok("{", 0, <<>>), Tok("}", 0, <<>>)>> }
    \cup {Encode(e) : e \in Placeholdable}
    \cup {SubSeq(Encode(e), 1, 3) : e \in Placeholdable}
    \cup {Encode(e) \o <<Tok("junk", 0, <<>>)>> : e \in Placeholdable}

Absent == [kind |-> "absent", content |-> <<>>, mode |-> 0, mtime |-> 0, target |-> NoTarget]

CodecFiles == {FileNode(c, 292, 5) : c \in CodecContents}

\* The filesystem with node a at P, b at P+suffix, c at P+suffix/suffix,
\* t at T and u at T/suffix.
MkFs(a, b, c, t, u) ==
    LET at == [x \in {CodecP, WithSuffix(CodecP), Join(WithSuffix(CodecP), ShallowEntrySuffix),
                      CodecT, Join(CodecT, ShallowEntrySuffix)} |->
                 IF x = CodecP THEN a
                 ELSE IF x = WithSuffix(CodecP) THEN b
                 ELSE IF x = Join(WithSuffix(CodecP), ShallowEntrySuffix) THEN c
                 ELSE IF x = CodecT THEN t ELSE u]
    IN  [x \in {y \in DOMAIN at : at[y].kind # "absent"} |-> at[x]]

CodecFilesystems ==
    { MkFs(a, b, c, t, u) :
        a \in {Absent, FileNode(<<>>, 420, 5), DirNode(493, 6), LinkNode(CodecT, 511, 7)},
        b \in {Absent, DirNode(448, 6), LinkNode(CodecT, 511, 7)} \cup CodecFiles,
        c \in {Absent, DirNode(448, 6)} \cup CodecFiles,
        t \in {Absent, FileNode(Encode(CHOOSE e \in CodecEntries : e.type = EntryTypeFile), 292, 5),
               DirNode(493, 6)},
        u \in {Absent, DirNode(448, 6)} }

WellFormed(f) ==
    \A p \in DOMAIN f : Len(p) > 1 => (Parent(p) \in DOMAIN f /\ f[Parent(p)].kind = "dir")

RestoreIdle == op = IdleOp /\ work = {} /\ open = {} /\ hist = NoHist

InitCodec ==
    /\ fs \in {f \in CodecFilesystems : WellFormed(f)}
    /\ last = NoCall
    /\ RestoreIdle

CodecRead(p) ==
    /\ last' = Call("read", p, ZeroEntry, ReadShallowPlaceholder(fs, p), fs)
    /\ UNCHANGED <<fs, op, work, open, hist>>

CodecWrite(p, de) ==
    LET w == WriteShallowPlaceholder(fs, p, de)
    IN  /\ fs' = w.fs
        /\ last' = Call("write", p, de, WriteResult(w), fs)
        /\ UNCHANGED <<op, work, open, hist>>

\* A call of placeholderPath with its result: the path returned, or an error.
PathCall(p, et, mp, pre) ==
    [op |-> "path", path |-> p, de |-> [ZeroEntry EXCEPT !.type = et],
     res |-> IF mp.ok THEN None ELSE Failed("io"), pre |-> pre, ret |-> mp.path]

CodecPlaceholderPath(p, et) ==
    LET mp == placeholderPath(fs, p, et)
    IN  /\ fs' = mp.fs
        /\ last' = PathCall(p, et, mp, fs)
        /\ UNCHANGED <<op, work, open, hist>>

NextCodec ==
    \/ \E p \in CodecPaths : CodecRead(p)
    \/ \E p \in CodecPaths, de \in CodecEntries : CodecWrite(p, de)
    \/ \E p \in CodecPaths, de \in CodecEntries : CodecPlaceholderPath(p, de.type)

SpecCodec == InitCodec /\ [][NextCodec]_vars

(***************************************************************************)
(* The codec's contract (spec 4.1).                                        *)
(***************************************************************************)
\* The placeholder node of the call's path, before the call.
PrePh == WithSuffix(last.path)
PrePhFile == Join(PrePh, ShallowEntrySuffix)

\* The content of the regular file at p in the filesystem f.
ContentAt(f, p) == f[LPath(f, p)].content

\* C2: ReadShallowPlaceholder(path) returns a Corrupt error and no DirEntry
\* whenever a node at path and a node at path+suffix both exist, whatever the
\* node at path+suffix is and whether or not it parses.
C2_CorruptWhenBoth ==
    (last.op = "read" /\ Lstat(last.pre, last.path) /\ Lstat(last.pre, PrePh))
        => last.res = Failed("Corrupt")

\* Both exist, and the placeholder is a directory whose metadata file parses.
C2_Witness ==
    /\ last.op = "read"
    /\ Lstat(last.pre, last.path)
    /\ NodeKind(last.pre, PrePh) = "dir"
    /\ NodeKind(last.pre, PrePhFile) = "file"
    /\ Decode(ContentAt(last.pre, PrePhFile)).ok
    /\ last.res = Failed("Corrupt")

\* C3: with no real entry at path and one placeholder form that parses (a
\* regular file at path+suffix, or a directory at path+suffix holding a file
\* named suffix), ReadShallowPlaceholder(path) returns the decoded entry and
\* no error; for the directory form it is the entry of path+suffix/suffix.
C3_DecodedWhenPlaceholder ==
    (last.op = "read" /\ ~Lstat(last.pre, last.path))
        => /\ (NodeKind(last.pre, PrePh) = "file" /\ Decode(ContentAt(last.pre, PrePh)).ok)
                => last.res = Found(Decode(ContentAt(last.pre, PrePh)).de)
           /\ (NodeKind(last.pre, PrePh) = "dir" /\ NodeKind(last.pre, PrePhFile) = "file"
                 /\ Decode(ContentAt(last.pre, PrePhFile)).ok)
                => last.res = Found(Decode(ContentAt(last.pre, PrePhFile)).de)

\* A directory placeholder, read from its metadata file.
C3_Witness ==
    /\ last.op = "read"
    /\ ~Lstat(last.pre, last.path)
    /\ NodeKind(last.pre, PrePh) = "dir"
    /\ NodeKind(last.pre, PrePhFile) = "file"
    /\ last.res.some
    /\ last.res.de.type = EntryTypeDirectory
    /\ last.res.de = Decode(ContentAt(last.pre, PrePhFile)).de

\* C4: ReadShallowPlaceholder(path) returns nil and no error if and only if a
\* real entry exists at path and no node exists at path+suffix.
C4_NoneIffRealOnly ==
    last.op = "read"
        => (last.res = None <=> (Lstat(last.pre, last.path) /\ ~Lstat(last.pre, PrePh)))

\* A real entry with no placeholder beside it has been read.
C4_Witness ==
    /\ last.op = "read"
    /\ Lstat(last.pre, last.path)
    /\ ~Lstat(last.pre, PrePh)
    /\ last.res = None

\* C5: ReadShallowPlaceholder(path) returns a NotFound error and no DirEntry
\* when neither a node at path nor a node at path+suffix exists.
C5_NotFoundWhenNeither ==
    (last.op = "read" /\ ~Lstat(last.pre, last.path) /\ ~Lstat(last.pre, PrePh))
        => last.res = Failed("NotFound")

\* Neither exists and the read has failed.
C5_Witness ==
    /\ last.op = "read"
    /\ ~Lstat(last.pre, last.path)
    /\ ~Lstat(last.pre, PrePh)
    /\ last.res = Failed("NotFound")

\* C6: for every entry of type File or Directory and every path with no real
\* entry at it, after WriteShallowPlaceholder(path, entry) succeeds,
\* ReadShallowPlaceholder(path) returns an entry equal to it in every field.
C6_RoundTrip ==
    (last.op = "write" /\ last.res.err = "" /\ ~Lstat(last.pre, last.path))
        => ReadShallowPlaceholder(fs, last.path) = Found(last.de)

\* C20 as stated: placeholderPath returns path+suffix for File without
\* touching the filesystem; for Directory it leaves a directory at
\* path+suffix, created if absent and kept if present, and returns
\* path+suffix+separator+suffix.
C20_Original ==
    last.op = "path" =>
        /\ last.de.type = EntryTypeFile
              => (last.res.err = "" /\ last.ret = PrePh /\ fs = last.pre)
        /\ last.de.type = EntryTypeDirectory
              => /\ last.res.err = ""
                 /\ last.ret = Join(PrePh, ShallowEntrySuffix)
                 /\ StatIsDir(fs, PrePh)
                 /\ Lstat(last.pre, PrePh) => fs = last.pre

\* C20, amended: placeholderPath returns path+suffix for File without
\* touching the filesystem; for Directory, when path+suffix is absent it
\* creates a directory there, when path+suffix is a directory (or a symlink
\* to one) it keeps it, and in both cases returns
\* path+suffix+separator+suffix; when path+suffix is anything else it fails
\* and changes nothing.
C20_PlaceholderPath ==
    last.op = "path" =>
        /\ last.de.type = EntryTypeFile
              => (last.res.err = "" /\ last.ret = PrePh /\ fs = last.pre)
        /\ last.de.type = EntryTypeDirectory
              => IF ~Lstat(last.pre, PrePh)
                 THEN /\ last.res.err = ""
                      /\ last.ret = Join(PrePh, ShallowEntrySuffix)
                      /\ NodeKind(fs, PrePh) = "dir"
                      /\ DOMAIN fs = DOMAIN last.pre \cup {PrePh}
                      /\ \A q \in DOMAIN last.pre : fs[q] = last.pre[q]
                 ELSE IF StatIsDir(last.pre, PrePh)
                 THEN /\ last.res.err = ""
                      /\ last.ret = Join(PrePh, ShallowEntrySuffix)
                      /\ fs = last.pre
                 ELSE /\ last.res.err # ""
                      /\ fs = last.pre

\* placeholderPath was called for a Directory where nothing was at
\* path+suffix, and made the directory.
C20_Witness ==
    /\ last.op = "path"
    /\ last.de.type = EntryTypeDirectory
    /\ ~Lstat(last.pre, PrePh)
    /\ NodeKind(fs, PrePh) = "dir"
    /\ last.ret = Join(PrePh, ShallowEntrySuffix)

\* C21: WriteShallowPlaceholder for an entry that is neither a File nor a
\* Directory fails with the unsupported-entry-type error and leaves the
\* filesystem unchanged: no node is created at path+suffix.
C21_UnsupportedEntryType ==
    (last.op = "write" /\ last.de.type \notin {EntryTypeFile, EntryTypeDirectory})
        => /\ last.res.err = "UnsupportedEntryType"
           /\ fs = last.pre
           /\ Lstat(fs, PrePh) <=> Lstat(last.pre, PrePh)

\* A placeholder was asked for a Symlink entry where nothing was at
\* path+suffix, and nothing is there afterwards.
C21_Witness ==
    /\ last.op = "write"
    /\ last.de.type = EntryTypeSymlink
    /\ last.res.err = "UnsupportedEntryType"
    /\ ~Lstat(last.pre, PrePh)
    /\ ~Lstat(fs, PrePh)

(***************************************************************************)
(* The repository: one snapshot tree, every entry with its object.         *)
(***************************************************************************)
\* --shallow=1000, the depth the tests use for "all of it".
FullDepth == 1000

\* makeLongName: a name of the greatest length the filesystem accepts.
LongName == [i \in 1..NameMax |-> "l"]

\* An entry of the snapshot; a file's size is told from its object.
Ent(n, t, o, m, mt) == DirEntry(n, t, o, m, IF t = EntryTypeFile THEN o ELSE 0, mt)

Repo ==
    { [path |-> << <<"f1">> >>, de |-> Ent(<<"f1">>, EntryTypeFile, 1, 420, 11)],
      [path |-> << <<"s1">> >>, de |-> Ent(<<"s1">>, EntryTypeSymlink, 2, 511, 12)],
      [path |-> << <<"d1">> >>, de |-> Ent(<<"d1">>, EntryTypeDirectory, 3, 493, 13)],
      [path |-> << <<"d1">>, <<"f2">> >>, de |-> Ent(<<"f2">>, EntryTypeFile, 4, 384, 14)],
      [path |-> << <<"d1">>, <<"d2">> >>, de |-> Ent(<<"d2">>, EntryTypeDirectory, 5, 448, 15)],
      [path |-> << <<"d1">>, <<"d2">>, <<"f3">> >>, de |-> Ent(<<"f3">>, EntryTypeFile, 6, 420, 16)],
      [path |-> << <<"d1">>, <<"s2">> >>, de |-> Ent(<<"s2">>, EntryTypeSymlink, 9, 511, 19)],
      [path |-> << <<"d1">>, LongName >>, de |-> Ent(LongName, EntryTypeFile, 10, 420, 20)],
      [path |-> <<LongName>>, de |-> Ent(LongName, EntryTypeDirectory, 7, 493, 17)],
      [path |-> <<LongName, <<"f4">> >>, de |-> Ent(<<"f4">>, EntryTypeFile, 8, 420, 18)] }

RepoPaths == {r.path : r \in Repo}

RepoEntry(rp) == (CHOOSE r \in Repo : r.path = rp).de

\* A resolution that does not compare the type of the object found.
ResolvesObjectOnly(de) == \E r \in Repo : r.de.obj = de.obj

\* The object resolves in the repository, to an object of the entry's type.
Resolves(de) == \E r \in Repo : r.de.obj = de.obj /\ r.de.type = de.type

\* The repository path of the object an entry names.
ObjPath(de) == (CHOOSE r \in Repo : r.de.obj = de.obj).path

\* The manifest of a directory entry: the entries of its children, with the
\* path of each below the directory.
Manifest(de) ==
    {[name |-> Last(r.path), de |-> r.de] : r \in {x \in Repo : Parent(x.path) = ObjPath(de)}}

RootManifest == {[name |-> Last(r.path), de |-> r.de] : r \in {x \in Repo : Len(x.path) = 1}}

\* The content of the file object o.
ContentOf(o) == <<Tok("data", o, <<>>)>>

\* Where every symbolic link of the tree points: nowhere.
LinkTarget == << <<"nowhere">> >>

(***************************************************************************)
(* The name-length guard (spec 4.5).                                       *)
(***************************************************************************)
\* A guard that finds every name short enough.
SafelySuffixableAlways(p) == TRUE

SafelySuffixablePath(p) == Len(Last(p)) + Len(ShallowEntrySuffix) <= NameMax

(***************************************************************************)
(* The depth-bounded materializer (spec 4.2) and the reifier (spec 4.3).   *)
(***************************************************************************)
Bit(m, b) == (m \div b) % 2

\* The time a symbolic link can be given: whole microseconds.
SymlinkTime(mt) == (mt \div Micro) * Micro

\* A mode left as it is.
ClearWriteBitsNone(m) == m

\* mode &^ 0o222
ClearWriteBits(m) == m - 128 * Bit(m, 128) - 16 * Bit(m, 16) - 2 * Bit(m, 2)

WorkItem(p, de, d) == [path |-> p, de |-> de, depth |-> d]

\* The attributes of the node at p set: chmod and chtimes.
SetAttributes(f, p, m, mt) == [f EXCEPT ![LPath(f, p)] = [@ EXCEPT !.mode = m, !.mtime = mt]]

\* A depth policy that does not look at the type of the entry.
IsShallowAnyType(w) ==
    /\ w.depth > op.shallow
    /\ SafelySuffixablePath(w.path)

\* An entry beyond the depth limit is written as a placeholder.
IsShallow(w) ==
    /\ w.de.type \in {EntryTypeFile, EntryTypeDirectory}
    /\ w.depth > op.shallow
    /\ SafelySuffixablePath(w.path)

StartRestore(D) ==
    /\ op = IdleOp
    /\ ~hist.restored
    /\ fs = EmptyFs
    /\ op' = [kind |-> "restore", shallow |-> D, root |-> Root, err |-> ""]
    /\ work' = {WorkItem(<<m.name>>, m.de, 1) : m \in RootManifest}
    /\ hist' = [hist EXCEPT !.depth = D]
    /\ UNCHANGED <<fs, last, open>>

\* A placeholder for the entry, with the entry's mode (read-only) and time.
CopyShallow(w) ==
    LET wr == WriteShallowPlaceholder(fs, w.path, w.de)
    IN  /\ IsShallow(w)
        /\ work' = work \ {w}
        /\ fs' = IF wr.ok
                 THEN SetAttributes(wr.fs, wr.path, ClearWriteBits(w.de.mode), w.de.mtime)
                 ELSE wr.fs
        /\ op' = IF wr.ok THEN op ELSE [op EXCEPT !.err = wr.err]
        /\ UNCHANGED <<last, open, hist>>

CopyFile(w) ==
    /\ w.de.type = EntryTypeFile
    /\ ~IsShallow(w)
    /\ fs' = Put(fs, w.path, FileNode(ContentOf(w.de.obj), w.de.mode, w.de.mtime))
    /\ work' = work \ {w}
    /\ UNCHANGED <<last, op, open, hist>>

CopySymlink(w) ==
    /\ w.de.type = EntryTypeSymlink
    /\ fs' = Put(fs, w.path, LinkNode(LinkTarget, w.de.mode, SymlinkTime(w.de.mtime)))
    /\ work' = work \ {w}
    /\ UNCHANGED <<last, op, open, hist>>

\* The real directory is created and its children are queued.
BeginDirectory(w) ==
    /\ w.de.type = EntryTypeDirectory
    /\ ~IsShallow(w)
    /\ fs' = Put(fs, w.path, DirNode(448, Now))
    /\ work' = (work \ {w}) \cup
               {WorkItem(Join(w.path, m.name), m.de, w.depth + 1) : m \in Manifest(w.de)}
    /\ open' = open \cup {w}
    /\ UNCHANGED <<last, op, hist>>

\* A directory given its mode and time as soon as it exists.
FinishDirectoryEarly(w) ==
    /\ w \in open
    /\ fs' = SetAttributes(fs, w.path, w.de.mode, w.de.mtime)
    /\ open' = open \ {w}
    /\ UNCHANGED <<last, op, work, hist>>

\* Once every child is written, the directory gets its mode and time.
FinishDirectory(w) ==
    /\ w \in open
    /\ \A x \in work \cup open : x = w \/ ~IsPrefix(w.path, x.path)
    /\ fs' = SetAttributes(fs, w.path, w.de.mode, w.de.mtime)
    /\ open' = open \ {w}
    /\ UNCHANGED <<last, op, work, hist>>

\* The operation returns: with its first error, or when nothing is left to do.
OpDone ==
    /\ op.kind # "idle"
    /\ op.err # "" \/ (work = {} /\ open = {})
    /\ op' = IdleOp
    /\ work' = {}
    /\ open' = {}
    /\ hist' = [hist EXCEPT !.restored = @ \/ op.err = ""]
    /\ UNCHANGED <<fs, last>>

\* A node whose name carries the suffix, inside no other such node.
IsPlaceholderNode(q) ==
    /\ HasSuffix(Last(q))
    /\ Len(Last(q)) > Len(ShallowEntrySuffix)
    /\ \A i \in 1..(Len(q) - 1) : ~HasSuffix(q[i])

PlaceholderNodes(f) == {q \in DOMAIN f : IsPlaceholderNode(q)}

\* A node that is no placeholder and lies in none.
IsRealPath(q) == \A i \in 1..Len(q) : ~HasSuffix(q[i])

RealNodes(f) == {q \in DOMAIN f : IsRealPath(q)}

\* The target holds a tree with no placeholder in it.
FullyReal(f) == f # EmptyFs /\ PlaceholderNodes(f) = {}

\* A shallow restore that does not look at what the target holds.
RestoreOntoUnchecked(D) ==
    /\ op = IdleOp
    /\ hist.restored
    /\ FullyReal(fs)
    /\ last.op # "restoreOnto"
    /\ op' = [kind |-> "restore", shallow |-> D, root |-> Root, err |-> ""]
    /\ work' = {WorkItem(<<m.name>>, m.de, 1) : m \in RootManifest}
    /\ last' = Call("restoreOnto", Root, ZeroEntry, None, fs)
    /\ UNCHANGED <<fs, open, hist>>

\* restore --shallow=D onto a target that holds a fully real tree: refused
\* before anything is written (spec 4.2, safety check).
RestoreOnto(D) ==
    /\ op = IdleOp
    /\ hist.restored
    /\ FullyReal(fs)
    /\ last.op # "restoreOnto"
    /\ last' = Call("restoreOnto", Root, ZeroEntry, Failed("OverwriteRefused"), fs)
    /\ UNCHANGED <<fs, op, work, open, hist>>

\* A deepening that leaves the placeholder node in place.
DeepenStartKeep(P, k) ==
    LET r == ReadShallowPlaceholder(fs, P)
    IN  /\ op = IdleOp
        /\ hist.restored
        /\ WithSuffix(P) \in PlaceholderNodes(fs)
        /\ r.some
        /\ Resolves(r.de)
        /\ fs' = fs
        /\ work' = {WorkItem(P, r.de, 0)}
        /\ op' = [kind |-> "deepen", shallow |-> IF k = FullDepth THEN FullDepth ELSE k - 1,
                  root |-> P, err |-> ""]
        /\ hist' = [hist EXCEPT !.deepened = @ \cup {P}, !.k = k]
        /\ last' = Call("deepen", P, r.de, None, fs)
        /\ UNCHANGED open

\* Every placeholder of the directory of p.
SiblingPlaceholders(f, p) == {q \in PlaceholderNodes(f) : Parent(q) = Parent(p)}

RECURSIVE RemoveEach(_, _)
RemoveEach(f, S) ==
    IF S = {} THEN f
    ELSE LET q == CHOOSE x \in S : TRUE IN RemoveEach(RemoveAll(f, q), S \ {q})

\* A deepening that clears every placeholder of the directory before it
\* materializes the one it was asked for.
DeepenStartWide(P, k) ==
    LET r == ReadShallowPlaceholder(fs, P)
    IN  /\ op = IdleOp
        /\ hist.restored
        /\ WithSuffix(P) \in PlaceholderNodes(fs)
        /\ r.some
        /\ Resolves(r.de)
        /\ fs' = RemoveEach(fs, SiblingPlaceholders(fs, WithSuffix(P)))
        /\ work' = {WorkItem(P, r.de, 0)}
        /\ op' = [kind |-> "deepen", shallow |-> IF k = FullDepth THEN FullDepth ELSE k - 1,
                  root |-> P, err |-> ""]
        /\ hist' = [hist EXCEPT !.deepened = @ \cup {P}, !.k = k]
        /\ last' = Call("deepen", P, r.de, None, fs)
        /\ UNCHANGED open

\* restore <placeholder>: the placeholder is decoded and removed, and the
\* object it names is materialized in its place, k levels deep.
DeepenStart(P, k) ==
    LET r == ReadShallowPlaceholder(fs, P)
    IN  /\ op = IdleOp
        /\ hist.restored
        /\ WithSuffix(P) \in PlaceholderNodes(fs)
        /\ r.some
        /\ Resolves(r.de)
        /\ fs' = RemoveAll(fs, WithSuffix(P))
        /\ work' = {WorkItem(P, r.de, 0)}
        /\ op' = [kind |-> "deepen", shallow |-> IF k = FullDepth THEN FullDepth ELSE k - 1,
                  root |-> P, err |-> ""]
        /\ hist' = [hist EXCEPT !.deepened = @ \cup {P}, !.k = k]
        /\ last' = Call("deepen", P, r.de, None, fs)
        /\ UNCHANGED open

\* restore <path> on a path that holds a real entry and no placeholder:
\* ReadShallowPlaceholder finds nothing to deepen and nothing is done.
DeepenReal(P) ==
    LET r == ReadShallowPlaceholder(fs, P)
    IN  /\ op = IdleOp
        /\ hist.restored
        /\ P \in RealNodes(fs)
        /\ ~Lstat(fs, WithSuffix(P))
        /\ last.op # "deepenReal"
        /\ last' = Call("deepenReal", P, ZeroEntry,
                        IF r.err = "" /\ ~r.some THEN None ELSE Failed(r.err), fs)
        /\ UNCHANGED <<fs, op, work, open, hist>>

\* os.Remove / os.RemoveAll of a placeholder by the user.
RemovePlaceholder(P) ==
    /\ op = IdleOp
    /\ hist.restored
    /\ WithSuffix(P) \in PlaceholderNodes(fs)
    /\ fs' = RemoveAll(fs, WithSuffix(P))
    /\ hist' = [hist EXCEPT !.removed = @ \cup {P}]
    /\ last' = NoCall
    /\ UNCHANGED <<op, work, open>>

(***************************************************************************)
(* snapshot create over a local tree (spec 4.4), and the full restore of   *)
(* what it stored.                                                         *)
(***************************************************************************)
\* The path a placeholder-backed entry reports: the directory it was listed
\* in joined with its name, from which the listing trimmed the suffix.
fullPath(q) == TrimShallowSuffix(q)

\* A DirEntryOrNil that decodes the node it is given without looking beside it.
DirEntryOrNilDirect(f, q) ==
    LET mf  == IF LstatIsDir(f, q) THEN Join(q, ShallowEntrySuffix) ELSE q
        got == dirEntryFromPlaceholder(f, mf)
    IN  IF got.ok THEN Found(got.de) ELSE Failed("NotFound")

\* shallowFilesystemFile.DirEntryOrNil and shallowFilesystemDirectory.DirEntryOrNil
\* of the entry listed for the placeholder node q: its path is the logical one.
DirEntryOrNil(f, q) == ReadShallowPlaceholder(f, fullPath(q))

\* Open, Child and Readdir of a placeholder-backed entry.
NotSupported == "not supported"

\* The error, if any, that the placeholder node q raises in a snapshot.
PlaceholderError(f, q) ==
    LET r == DirEntryOrNil(f, q)
    IN  IF r.err # "" THEN r.err
        ELSE IF ~r.some THEN NotSupported
        ELSE IF ~Resolves(r.de) THEN "ForeignOrInvalidObject"
        ELSE ""

\* snapshot create fails as a whole on the first placeholder in error.
SnapshotError(f) ==
    LET bad == {q \in PlaceholderNodes(f) : PlaceholderError(f, q) # ""}
    IN  IF bad = {} THEN "" ELSE PlaceholderError(f, CHOOSE q \in bad : TRUE)

ObjOf(c) == IF c = <<>> THEN 0 ELSE c[1].num

\* The entry a snapshot stores for the real node at q.
EntryOfNode(f, q) ==
    LET n == f[q]
    IN  IF n.kind = "file"
        THEN DirEntry(Last(q), EntryTypeFile, ObjOf(n.content), n.mode, ObjOf(n.content), n.mtime)
        ELSE DirEntry(Last(q), IF n.kind = "dir" THEN EntryTypeDirectory ELSE EntryTypeSymlink,
                      0, n.mode, 0, n.mtime)

\* The node a full restore writes for an entry.
NodeOfEntry(de) ==
    IF de.type = EntryTypeFile THEN FileNode(ContentOf(de.obj), de.mode, de.mtime)
    ELSE IF de.type = EntryTypeDirectory THEN DirNode(de.mode, de.mtime)
    ELSE LinkNode(LinkTarget, de.mode, SymlinkTime(de.mtime))

\* The entries of the snapshot of f, by logical path: real nodes as they are,
\* a placeholder as the entry it holds, with the repository's tree below it.
SnapshotTree(f) ==
    LET phs     == PlaceholderNodes(f)
        entry(q) == DirEntryOrNil(f, q).de
        below(q) == {r \in Repo : IsPrefix(ObjPath(entry(q)), r.path) /\ r.path # ObjPath(entry(q))}
        rel(q, r) == TrimShallowSuffix(q) \o SubSeq(r.path, Len(ObjPath(entry(q))) + 1, Len(r.path))
        items   == {[path |-> q, de |-> EntryOfNode(f, q)] : q \in RealNodes(f)}
                   \cup {[path |-> TrimShallowSuffix(q), de |-> entry(q)] : q \in phs}
                   \cup UNION {{[path |-> rel(q, r), de |-> r.de] : r \in below(q)} : q \in phs}
    IN  items

\* The tree a full restore of a snapshot writes.
RestoreOf(items) ==
    [p \in {i.path : i \in items} |-> NodeOfEntry((CHOOSE i \in items : i.path = p).de)]

\* The full restore of the original snapshot.
FullRestoreFs == RestoreOf(Repo)

SnapshotCreate ==
    /\ op = IdleOp
    /\ hist.restored
    /\ last.op # "snapshot"
    /\ last' = Call("snapshot", Root, ZeroEntry, Failed(SnapshotError(fs)), fs)
    /\ hist' = [hist EXCEPT !.snapFailed = @ \/ SnapshotError(fs) # ""]
    /\ UNCHANGED <<fs, op, work, open>>

(***************************************************************************)
(* The restore of one snapshot into an empty directory, the deepenings and *)
(* removals of its placeholders, and snapshots of the tree.                *)
(***************************************************************************)
ShallowDepths == 0..MaxShallow \cup {FullDepth}

DeepenDepths == 1..MaxDeepen \cup {FullDepth}

LogicalPaths == RepoPaths

Init ==
    /\ fs = EmptyFs
    /\ last = NoCall
    /\ RestoreIdle

Next ==
    \/ \E D \in ShallowDepths : StartRestore(D)
    \/ \E w \in work : op.err = "" /\ CopyShallow(w)
    \/ \E w \in work : op.err = "" /\ CopyFile(w)
    \/ \E w \in work : op.err = "" /\ CopySymlink(w)
    \/ \E w \in work : op.err = "" /\ BeginDirectory(w)
    \/ \E w \in open : op.err = "" /\ FinishDirectory(w)
    \/ OpDone
    \/ \E P \in LogicalPaths, k \in DeepenDepths : DeepenStart(P, k)
    \/ \E P \in LogicalPaths : RemovePlaceholder(P)
    \/ SnapshotCreate
    \/ \E D \in 0..MaxShallow : RestoreOnto(D)
    \/ \E P \in LogicalPaths : DeepenReal(P)

Spec == Init /\ [][Next]_vars

C7_DepthBound ==
    (op = IdleOp /\ hist.restored /\ hist.deepened = {})
        => \A q \in RealNodes(fs) :
              (fs[q].kind \in {"file", "dir"} /\ Len(q) > hist.depth)
                  => ~SafelySuffixablePath(q)

\* A --shallow=1 restore is complete: real entries at depth 1, placeholders
\* at depth 2, the directory with the long name real.
C7_Witness ==
    /\ op = IdleOp
    /\ hist.restored
    /\ hist.deepened = {}
    /\ hist.depth = 1
    /\ \E q \in RealNodes(fs) : Len(q) = 1 /\ fs[q].kind = "dir" /\ SafelySuffixablePath(q)
    /\ \E q \in PlaceholderNodes(fs) : Len(q) = 2

\* Nothing is left to deepen, and no placeholder was removed by hand.
FullyDeepened ==
    /\ op = IdleOp
    /\ hist.restored
    /\ hist.removed = {}
    /\ PlaceholderNodes(fs) = {}

DeepenedIn == {Parent(P) : P \in hist.deepened}

C9_SnapshotRoundTrip ==
    (last.op = "snapshot" /\ hist.deepened = {} /\ hist.removed = {})
        => /\ last.res.err = ""
           /\ RestoreOf(SnapshotTree(last.pre)) = FullRestoreFs

\* A --shallow=0 tree, with a file and a directory placeholder, was snapshotted.
C9_Witness ==
    /\ last.op = "snapshot"
    /\ hist.deepened = {}
    /\ hist.removed = {}
    /\ hist.depth = 0
    /\ \E q \in PlaceholderNodes(last.pre) : last.pre[q].kind = "dir"
    /\ \E q \in PlaceholderNodes(last.pre) : last.pre[q].kind = "file"

C13_PlaceholderFidelity ==
    (op = IdleOp /\ hist.restored)
        => \A q \in PlaceholderNodes(fs) :
              LET r == ReadShallowPlaceholder(fs, TrimShallowSuffix(q))
              IN  /\ TrimShallowSuffix(q) \in RepoPaths
                  /\ r.some
                  /\ r.err = ""
                  /\ r.de = RepoEntry(TrimShallowSuffix(q))

\* A deepening by one level has completed and left a file placeholder and a
\* directory placeholder two levels down.
C13_Witness ==
    /\ op = IdleOp
    /\ hist.restored
    /\ hist.deepened # {}
    /\ \E q \in PlaceholderNodes(fs) : Len(q) = 2 /\ fs[q].kind = "file"
    /\ \E q \in PlaceholderNodes(fs) : Len(q) = 2 /\ fs[q].kind = "dir"

\* C14: the Materializer creates a placeholder for a name only if the name
\* with the suffix fits the maximum name length; an entry beyond the depth
\* limit whose name does not fit is real, and the children of such a
\* directory are placeholders again where their names fit.
C14_Representability ==
    /\ \A q \in PlaceholderNodes(fs) : Len(Last(q)) <= NameMax
    /\ (op = IdleOp /\ hist.restored /\ hist.deepened = {} /\ hist.removed = {})
          => \A rp \in RepoPaths :
                (/\ Len(rp) > hist.depth
                 /\ RepoEntry(rp).type \in {EntryTypeFile, EntryTypeDirectory}
                 /\ (Len(rp) = 1 \/ NodeKind(fs, Parent(rp)) = "dir"))
                    => IF Len(Last(rp)) + Len(ShallowEntrySuffix) > NameMax
                       THEN /\ NodeKind(fs, rp) = (IF RepoEntry(rp).type = EntryTypeFile
                                                   THEN "file" ELSE "dir")
                            /\ ~Lstat(fs, WithSuffix(rp))
                       ELSE /\ ~Lstat(fs, rp)
                            /\ WithSuffix(rp) \in PlaceholderNodes(fs)

\* A --shallow=0 restore is complete: the directory with the long name is
\* real and the file in it is a placeholder.
C14_Witness ==
    /\ op = IdleOp
    /\ hist.restored
    /\ hist.depth = 0
    /\ hist.deepened = {}
    /\ NodeKind(fs, <<LongName>>) = "dir"
    /\ ~Lstat(fs, WithSuffix(<<LongName>>))
    /\ WithSuffix(<<LongName, <<"f4">> >>) \in PlaceholderNodes(fs)

\* C15: in every state produced by restore or deepening at any depth limit
\* no placeholder node exists for a Symlink entry and no placeholder is
\* asked for one; every Symlink entry that was reached is a real symlink.
C15_TypeRestriction ==
    /\ \A rp \in RepoPaths :
          RepoEntry(rp).type = EntryTypeSymlink => ~Lstat(fs, WithSuffix(rp))
    /\ \A q \in PlaceholderNodes(fs) :
          ReadShallowPlaceholder(fs, TrimShallowSuffix(q)).de.type
              \in {EntryTypeFile, EntryTypeDirectory}
    /\ op.err # "UnsupportedEntryType"
    /\ (op = IdleOp /\ hist.restored)
          => \A rp \in RepoPaths :
                (/\ RepoEntry(rp).type = EntryTypeSymlink
                 /\ (Len(rp) = 1 \/ NodeKind(fs, Parent(rp)) = "dir"))
                    => /\ NodeKind(fs, rp) = "symlink"
                       /\ fs[rp].mode = RepoEntry(rp).mode

\* A --shallow=0 restore is complete: the symlink, one level below the
\* root, is real beside the placeholders of its siblings.
C15_Witness ==
    /\ op = IdleOp
    /\ hist.restored
    /\ hist.depth = 0
    /\ NodeKind(fs, << <<"s1">> >>) = "symlink"
    /\ WithSuffix(<< <<"f1">> >>) \in PlaceholderNodes(fs)

\* C16: deepening a path that holds a real entry and no placeholder returns
\* success and leaves the filesystem unchanged, so that deepening a path a
\* second time leaves the tree the first deepening made.
C16_DeepenIdempotent ==
    last.op = "deepenReal" =>
        /\ last.res.err = ""
        /\ ~last.res.some
        /\ fs = last.pre
        /\ op = IdleOp

\* The path of a placeholder that was deepened is deepened a second time.
C16_Witness ==
    /\ last.op = "deepenReal"
    /\ last.path \in hist.deepened
    /\ last.res.err = ""
    /\ fs = last.pre
    /\ PlaceholderNodes(fs) # {}

\* The nodes a deepening of P may change: P+suffix, P and what lies below.
InDeepened(P, q) == IsPrefix(P, q) \/ IsPrefix(WithSuffix(P), q)

RepoChildren(P) == {rp \in RepoPaths : Parent(rp) = P}

\* C18: restore on a directory placeholder with the default depth (k = 1)
\* removes the node P+suffix and leaves a real directory at P whose children
\* are exactly the entries of the repository directory: each File or
\* Directory child a placeholder of its shape where its name fits, each
\* Symlink child a real symlink, and nothing real below those children.
C18_DeepenDirectoryOneLevel ==
    (/\ last.op = "deepen"
     /\ op = IdleOp
     /\ hist.k = 1
     /\ last.de.type = EntryTypeDirectory)
        => /\ ~Lstat(fs, WithSuffix(last.path))
           /\ NodeKind(fs, last.path) = "dir"
           /\ {TrimShallowSuffix(q) : q \in {x \in DOMAIN fs : Parent(x) = last.path}}
                  = RepoChildren(last.path)
           /\ \A rp \in RepoChildren(last.path) :
                 IF RepoEntry(rp).type = EntryTypeSymlink
                 THEN NodeKind(fs, rp) = "symlink"
                 ELSE IF Len(Last(rp)) + Len(ShallowEntrySuffix) <= NameMax
                 THEN /\ ~Lstat(fs, rp)
                      /\ NodeKind(fs, WithSuffix(rp))
                            = (IF RepoEntry(rp).type = EntryTypeDirectory THEN "dir" ELSE "file")
                      /\ ReadShallowPlaceholder(fs, rp) = Found(RepoEntry(rp))
                 ELSE /\ ~Lstat(fs, WithSuffix(rp))
                      /\ NodeKind(fs, rp)
                            = (IF RepoEntry(rp).type = EntryTypeDirectory THEN "dir" ELSE "file")
           /\ \A q \in RealNodes(fs) :
                 IsPrefix(last.path, q) => Len(q) <= Len(last.path) + 1

\* The placeholder of the directory d1 was deepened by one level: its
\* directory and file are placeholders, its symlink and the file with the
\* long name are real.
C18_Witness ==
    /\ last.op = "deepen"
    /\ op = IdleOp
    /\ hist.k = 1
    /\ last.path = << <<"d1">> >>
    /\ NodeKind(fs, << <<"d1">>, <<"d2", ".kopia-entry">> >>) = "dir"
    /\ NodeKind(fs, << <<"d1">>, <<"f2", ".kopia-entry">> >>) = "file"
    /\ NodeKind(fs, << <<"d1">>, <<"s2">> >>) = "symlink"
    /\ NodeKind(fs, << <<"d1">>, LongName >>) = "file"

\* C19: deepening a File placeholder, for any additional depth k, removes
\* the placeholder node and yields the complete real file at the logical
\* path: the content, mode and time of the repository entry.
C19_DeepenFile ==
    (/\ last.op = "deepen"
     /\ op = IdleOp
     /\ last.de.type = EntryTypeFile)
        => /\ ~Lstat(fs, WithSuffix(last.path))
           /\ last.path \in DOMAIN fs
           /\ fs[last.path] = FileNode(ContentOf(RepoEntry(last.path).obj),
                                       RepoEntry(last.path).mode,
                                       RepoEntry(last.path).mtime)

\* The file placeholder d1/d2/f3 was deepened with the depth of a full restore.
C19_Witness ==
    /\ last.op = "deepen"
    /\ op = IdleOp
    /\ hist.k = FullDepth
    /\ last.path = << <<"d1">>, <<"d2">>, <<"f3">> >>
    /\ NodeKind(fs, last.path) = "file"
    /\ last.pre[WithSuffix(last.path)].kind = "file"

(***************************************************************************)
(* A fully restored tree into which a user plants nodes named like         *)
(* placeholders, beside real entries, and removes one of the two again     *)
(* (TestPlaceholderAndRealFails).                                          *)
(***************************************************************************)
\* What a planted placeholder file may hold: nothing, the entry of the real
\* node beside it, or that entry with an object of another repository.
PlantContents(P) ==
    {<<>>, Encode(RepoEntry(P)), Encode([RepoEntry(P) EXCEPT !.obj = 99])}

PlantShapes == {"file", "emptydir", "dirfile"}

Plant(P, shape, c) ==
    LET php == WithSuffix(P)
        dir == Put(fs, php, DirNode(448, Now))
    IN  /\ Cardinality(hist.planted) < MaxStray
        /\ P \in RealNodes(fs)
        /\ P \notin hist.planted
        /\ SafelySuffixablePath(P)
        /\ ~Lstat(fs, php)
        /\ shape = "emptydir" => c = <<>>
        /\ fs' = IF shape = "file" THEN Put(fs, php, FileNode(c, 420, Now))
                 ELSE IF shape = "emptydir" THEN dir
                 ELSE Put(dir, Join(php, ShallowEntrySuffix), FileNode(c, 420, Now))
        /\ hist' = [hist EXCEPT !.planted = @ \cup {P}]
        /\ last' = NoCall
        /\ UNCHANGED <<op, work, open>>

\* Some logical path has both a real entry and a node at path+suffix.
Coexist(f) == \E q \in RealNodes(f) : Lstat(f, WithSuffix(q))

CutReal(P) ==
    /\ P \in hist.planted
    /\ P \in DOMAIN fs
    /\ Lstat(fs, WithSuffix(P))
    /\ fs' = RemoveAll(fs, P)
    /\ hist' = [hist EXCEPT !.cutReal = @ \cup {P}]
    /\ last' = NoCall
    /\ UNCHANGED <<op, work, open>>

CutPlaceholder(P) ==
    /\ P \in hist.planted
    /\ P \in DOMAIN fs
    /\ Lstat(fs, WithSuffix(P))
    /\ fs' = RemoveAll(fs, WithSuffix(P))
    /\ hist' = [hist EXCEPT !.cutPh = @ \cup {P}]
    /\ last' = NoCall
    /\ UNCHANGED <<op, work, open>>

InitSnap ==
    /\ fs = FullRestoreFs
    /\ last = NoCall
    /\ op = IdleOp
    /\ work = {}
    /\ open = {}
    /\ hist = [NoHist EXCEPT !.restored = TRUE, !.depth = FullDepth]

NextSnap ==
    \/ \E P \in LogicalPaths, shape \in PlantShapes : \E c \in PlantContents(P) : Plant(P, shape, c)
    \/ \E P \in LogicalPaths : CutReal(P)
    \/ \E P \in LogicalPaths : CutPlaceholder(P)
    \/ SnapshotCreate

SpecSnap == InitSnap /\ [][NextSnap]_vars

\* The node at P+suffix is a placeholder whose entry decodes and resolves.
ValidPlaceholderAt(f, P) ==
    LET php == WithSuffix(P)
        mf  == IF NodeKind(f, php) = "dir" THEN Join(php, ShallowEntrySuffix) ELSE php
    IN  /\ NodeKind(f, mf) = "file"
        /\ Decode(ContentAt(f, mf)).ok
        /\ Resolves(Decode(ContentAt(f, mf)).de)

\* C10 as stated: snapshot create fails on a tree in which a real entry and
\* a node at path+suffix coexist, whatever the shape of that node, and
\* succeeds on the same tree once either of the two is removed.
C10_Original ==
    last.op = "snapshot" =>
        /\ Coexist(last.pre) => last.res.err # ""
        /\ (~Coexist(last.pre) /\ hist.planted # {}) => last.res.err = ""

\* C10, amended: snapshot create fails while they coexist; it succeeds once
\* the placeholder node is removed; once the real entry is removed instead,
\* it succeeds if and only if the node left at path+suffix is a placeholder
\* whose entry decodes and resolves in the repository.
C10_SnapshotAndCoexistence ==
    last.op = "snapshot" =>
        /\ Coexist(last.pre) => last.res.err # ""
        /\ (~Coexist(last.pre) /\ hist.planted # {} /\ hist.cutReal = {}) => last.res.err = ""
        /\ (~Coexist(last.pre) /\ hist.cutReal # {})
              => (last.res.err = "" <=>
                    \A P \in hist.cutReal :
                        Lstat(last.pre, WithSuffix(P)) => ValidPlaceholderAt(last.pre, P))

\* A snapshot failed on the pair, and succeeds after the placeholder is removed.
C10_Witness ==
    /\ last.op = "snapshot"
    /\ last.res.err = ""
    /\ hist.snapFailed
    /\ hist.cutPh # {}
    /\ ~Coexist(last.pre)

(***************************************************************************)
(* A fully restored tree into which a placeholder written by hand is put   *)
(* under a name of its own (TestForeignReposCauseErrors).                  *)
(***************************************************************************)
BadName == <<"badplaceholder">>

\* The object of no entry of the repository.
ForeignObj == 99

\* The entries written into the placeholder: the object is foreign, or that
\* of the file f1, or that of the directory d1; the type is claimed freely.
HandEntries ==
    {DirEntry(BadName, t, o, 0, 0, 0) :
        t \in {EntryTypeFile, EntryTypeDirectory}, o \in {ForeignObj, 1, 3}}

\* The directories of the tree in which the placeholder is put.
HandDirs == {Root} \cup {q \in DOMAIN FullRestoreFs : FullRestoreFs[q].kind = "dir"}

\* os.MkdirAll(spath) when mkdir, then ioutil.WriteFile(depath, bytes, 0o444).
PlantByHand(dir, mkdir, de) ==
    LET spath  == WithSuffix(Join(dir, BadName))
        made   == Put(fs, spath, DirNode(448, Now))
        depath == IF mkdir THEN Join(spath, ShallowEntrySuffix) ELSE spath
    IN  /\ Cardinality(hist.planted) < MaxStray
        /\ last.op # "snapshot"
        /\ dir = Root \/ dir \in DOMAIN fs
        /\ ~Lstat(fs, WithSuffix(Join(dir, BadName)))
        /\ fs' = Put(IF mkdir THEN made ELSE fs, depath, FileNode(Encode(de), 292, Now))
        /\ hist' = [hist EXCEPT !.planted = @ \cup {Join(dir, BadName)}]
        /\ last' = NoCall
        /\ UNCHANGED <<op, work, open>>

\* os.RemoveAll(spath)
RemoveByHand(P) ==
    /\ P \in hist.planted
    /\ Lstat(fs, WithSuffix(P))
    /\ fs' = RemoveAll(fs, WithSuffix(P))
    /\ hist' = [hist EXCEPT !.planted = @ \ {P}, !.cutPh = @ \cup {P}]
    /\ last' = NoCall
    /\ UNCHANGED <<op, work, open>>

NextForeign ==
    \/ \E dir \in HandDirs, mkdir \in BOOLEAN, de \in HandEntries : PlantByHand(dir, mkdir, de)
    \/ \E dir \in HandDirs : RemoveByHand(Join(dir, BadName))
    \/ SnapshotCreate

SpecForeign == InitSnap /\ [][NextForeign]_vars

\* The entry the placeholder of the logical path P holds in f.
HeldEntry(f, P) ==
    LET php == WithSuffix(P)
        mf  == IF NodeKind(f, php) = "dir" THEN Join(php, ShallowEntrySuffix) ELSE php
    IN  Decode(ContentAt(f, mf)).de

\* No object of the repository has the entry's objectID and its type.
Unresolvable(de) == \A r \in Repo : r.de.obj # de.obj \/ r.de.type # de.type

\* C11: snapshot create fails as a whole whenever the tree holds a file or
\* directory placeholder whose objectID does not resolve in the repository,
\* or resolves to an object of another type than the placeholder claims.
C11_ForeignPlaceholderFails ==
    last.op = "snapshot" =>
        ((\E P \in hist.planted : Unresolvable(HeldEntry(last.pre, P)))
            => last.res.err # "")

\* A snapshot failed on a directory placeholder that claims the type
\* Directory for the object of a file.
C11_Witness ==
    /\ last.op = "snapshot"
    /\ last.res.err # ""
    /\ \E P \in hist.planted :
          /\ NodeKind(last.pre, WithSuffix(P)) = "dir"
          /\ HeldEntry(last.pre, P).type = EntryTypeDirectory
          /\ HeldEntry(last.pre, P).obj = 1


(***************************************************************************)
(* WriteShallowPlaceholder step by step, with a reader beside it.  The     *)
(* writer's position is in op; last holds what the reader saw.             *)
(***************************************************************************)
\* The number of tokens one write call puts into the temporary file.
ChunkLen == 5

WriteOp(pc, p, de, mp, tmp, pre, err) ==
    [kind |-> "write", pc |-> pc, path |-> p, de |-> de, buffy |-> Encode(de),
     mp |-> mp, tmp |-> tmp, pre |-> pre, err |-> err]

\* The file the placeholder of an entry of type et at p is kept in.
PlaceholderFile(p, et) ==
    IF et = EntryTypeDirectory THEN Join(WithSuffix(p), ShallowEntrySuffix) ELSE WithSuffix(p)

\* A writer that opens the destination itself and writes into it.
TempPathInPlace(f, mp) == LPath(f, mp)

\* ioutil.TempFile(dir, file): a fresh name in the destination's directory.
TempPath(f, mp) == Join(RealPath(f, Parent(mp)), Last(mp) \o <<"#tmp">>)

\* The children of the directory at d.
Children(f, d) == {q \in DOMAIN f : q # Root /\ Parent(q) = d}

IsSerializedEntry(c) == Decode(c).ok /\ c = Encode(Decode(c).de)

\* The directory at d has the shape of a directory placeholder.
DirectoryPlaceholderShape(f, d) ==
    /\ Children(f, d) = {Join(d, ShallowEntrySuffix)}
    /\ f[Join(d, ShallowEntrySuffix)].kind = "file"
    /\ IsSerializedEntry(f[Join(d, ShallowEntrySuffix)].content)

\* Every directory named N+suffix has that shape.
ShapeOk(f) ==
    \A d \in DOMAIN f :
        (f[d].kind = "dir" /\ HasSuffix(Last(d))) => DirectoryPlaceholderShape(f, d)

InitAtomic ==
    /\ fs \in {f \in CodecFilesystems : WellFormed(f) /\ ShapeOk(f)}
    /\ last = NoCall
    /\ RestoreIdle

\* The entry is encoded into the buffer.
AtomicBegin(p, de) ==
    /\ op = IdleOp
    /\ op' = WriteOp("path", p, de, Root, Root, fs, "")
    /\ UNCHANGED <<fs, last, work, open, hist>>

\* placeholderPath: for a Directory entry the directory path+suffix is made.
AtomicPath ==
    /\ op.kind = "write" /\ op.pc = "path"
    /\ LET mp == placeholderPath(fs, op.path, op.de.type)
       IN  /\ fs' = mp.fs
           /\ op' = IF mp.ok
                    THEN [op EXCEPT !.pc = "temp", !.mp = mp.path]
                    ELSE [op EXCEPT !.pc = "done",
                                    !.err = IF op.de.type \in {EntryTypeFile, EntryTypeDirectory}
                                            THEN "io" ELSE "UnsupportedEntryType"]
    /\ UNCHANGED <<last, work, open, hist>>

\* atomic.WriteFile: the temporary file is created, empty.
AtomicTemp ==
    /\ op.kind = "write" /\ op.pc = "temp"
    /\ IF StatIsDir(fs, Parent(op.mp)) /\ ~LstatIsDir(fs, TempPath(fs, op.mp))
       THEN /\ fs' = Put(fs, TempPath(fs, op.mp), FileNode(<<>>, 384, Now))
            /\ op' = [op EXCEPT !.pc = "copy", !.tmp = TempPath(fs, op.mp)]
       ELSE /\ fs' = fs
            /\ op' = [op EXCEPT !.pc = "done", !.err = "io"]
    /\ UNCHANGED <<last, work, open, hist>>

\* atomic.WriteFile: the next part of the buffer goes into the temporary file.
AtomicCopy ==
    /\ op.kind = "write" /\ op.pc = "copy"
    /\ LET have == Len(fs[op.tmp].content)
           upto == IF have + ChunkLen < Len(op.buffy) THEN have + ChunkLen ELSE Len(op.buffy)
       IN  /\ fs' = [fs EXCEPT ![op.tmp].content = SubSeq(op.buffy, 1, upto)]
           /\ op' = IF upto = Len(op.buffy) THEN [op EXCEPT !.pc = "rename"] ELSE op
    /\ UNCHANGED <<last, work, open, hist>>

\* atomic.WriteFile: the temporary file is renamed onto the destination, or
\* removed when it cannot be.
AtomicRename ==
    /\ op.kind = "write" /\ op.pc = "rename"
    /\ LET node == fs[op.tmp]
           gone == [x \in DOMAIN fs \ {op.tmp} |-> fs[x]]
       IN  IF op.tmp # LPath(fs, op.mp) /\ LstatIsDir(fs, op.mp)
           THEN /\ fs' = Touch(gone, Parent(op.tmp))
                /\ op' = [op EXCEPT !.pc = "done", !.err = "io"]
           ELSE /\ fs' = Put(gone, LPath(fs, op.mp), node)
                /\ op' = [op EXCEPT !.pc = "done"]
    /\ UNCHANGED <<last, work, open, hist>>

\* What a reader of the file at q sees, and the write that was under way.
Observation(f, q, w) ==
    [op |-> "observe", path |-> q, de |-> ZeroEntry, res |-> None, pre |-> f,
     data |-> ReadFile(f, q), shape |-> ShapeOk(f), writer |-> w]

\* A concurrent reader opens and reads the file at q.
Observe(q) ==
    /\ last' = Observation(fs, q, op)
    /\ UNCHANGED <<fs, op, work, open, hist>>

ObservedPaths == {PlaceholderFile(p, et) : p \in CodecPaths, et \in {EntryTypeFile, EntryTypeDirectory}}

NextAtomic ==
    \/ \E p \in CodecPaths, de \in CodecEntries : AtomicBegin(p, de)
    \/ AtomicPath
    \/ AtomicTemp
    \/ AtomicCopy
    \/ AtomicRename
    \/ \E q \in ObservedPaths : Observe(q)

SpecAtomic == InitAtomic /\ [][NextAtomic]_vars

\* The reader read the file a write under way keeps its placeholder in.
ObservedDuringWrite ==
    /\ last.op = "observe"
    /\ last.writer.kind = "write"
    /\ last.path = PlaceholderFile(last.writer.path, last.writer.de.type)

\* C22: in every interleaving of a WriteShallowPlaceholder with a reader of
\* the same placeholder file, the reader sees the complete previous content
\* (or no file), or the complete new content, never a part of it.
C22_AtomicWrite ==
    ObservedDuringWrite
        => \/ last.data = ReadFile(last.writer.pre, last.path)
           \/ last.data = [ok |-> TRUE, data |-> last.writer.buffy]

\* The reader read the placeholder file while only a part of the new content
\* had been written, the file holding an older entry, and saw the older one.
C22_Witness ==
    /\ ObservedDuringWrite
    /\ last.writer.pc = "copy"
    /\ last.writer.tmp \in DOMAIN last.pre
    /\ Len(last.pre[last.writer.tmp].content) \in 1..(Len(last.writer.buffy) - 1)
    /\ last.data.ok
    /\ last.data.data # last.writer.buffy
    /\ IsSerializedEntry(last.data.data)

\* C23: in every reachable state, the states a reader can see while
\* WriteShallowPlaceholder runs included, a directory named N+suffix holds
\* exactly one regular file, named suffix, whose content is a serialized entry.
C23_DirectoryPlaceholderShape == ShapeOk(fs)

\* The same shape in the states in which no write is under way.
C23_ShapeWhenQuiet == (op.kind = "idle" \/ (op.pc = "done" /\ op.err = "")) => ShapeOk(fs)

(***************************************************************************)
(* The entries a directory listing makes of placeholder nodes:             *)
(* shallowFilesystemFile and shallowFilesystemDirectory.                   *)
(***************************************************************************)
\* What a content operation returns: an error, or the content.
Content(data) == [ok |-> TRUE, err |-> "", data |-> data]
NoContent(e) == [ok |-> FALSE, err |-> e, data |-> <<>>]

\* An Open that hands out the bytes of the placeholder file.
OpenReadsPlaceholder(f, q) == Content(ReadFile(f, q).data)

\* shallowFilesystemFile.Open
Open(f, q) == NoContent(NotSupported)

\* shallowFilesystemDirectory.Child
Child(f, q, name) == NoContent(NotSupported)

\* shallowFilesystemDirectory.Readdir
Readdir(f, q) == NoContent(NotSupported)

\* A call on the entry of the placeholder node q, with what it returned.
EntryCall(o, q, res, ret, pre) ==
    [op |-> o, path |-> q, de |-> ZeroEntry, res |-> res, pre |-> pre, ret |-> ret]

\* The placeholder nodes a listing may meet.
EntryNodes == {WithSuffix(p) : p \in CodecPaths}

EntryDirEntryOrNil(q) ==
    /\ NodeKind(fs, q) \in {"file", "dir"}
    /\ last' = EntryCall("DirEntryOrNil", q, DirEntryOrNil(fs, q), NoContent(""), fs)
    /\ UNCHANGED <<fs, op, work, open, hist>>

EntryOpen(q) ==
    /\ NodeKind(fs, q) = "file"
    /\ last' = EntryCall("Open", q, None, Open(fs, q), fs)
    /\ UNCHANGED <<fs, op, work, open, hist>>

EntryChild(q, name) ==
    /\ NodeKind(fs, q) = "dir"
    /\ last' = EntryCall("Child", q, None, Child(fs, q, name), fs)
    /\ UNCHANGED <<fs, op, work, open, hist>>

EntryReaddir(q) ==
    /\ NodeKind(fs, q) = "dir"
    /\ last' = EntryCall("Readdir", q, None, Readdir(fs, q), fs)
    /\ UNCHANGED <<fs, op, work, open, hist>>

\* The paths PathIfPlaceholder is asked about: the empty one, logical
\* paths, placeholder nodes and the file inside a directory placeholder.
PathInputs ==
    {Root} \cup CodecPaths \cup EntryNodes \cup {Join(q, ShallowEntrySuffix) : q \in EntryNodes}

CallPathIfPlaceholder(p) ==
    /\ last' = EntryCall("PathIfPlaceholder", p, None, PathIfPlaceholder(p), fs)
    /\ UNCHANGED <<fs, op, work, open, hist>>

NextEntry ==
    \/ \E p \in CodecPaths, de \in CodecEntries : CodecWrite(p, de)
    \/ \E p \in PathInputs : CallPathIfPlaceholder(p)
    \/ \E q \in EntryNodes : EntryDirEntryOrNil(q)
    \/ \E q \in EntryNodes : EntryOpen(q)
    \/ \E q \in EntryNodes : EntryChild(q, ShallowEntrySuffix)
    \/ \E q \in EntryNodes : EntryReaddir(q)

SpecEntry == InitCodec /\ [][NextEntry]_vars

\* The file the placeholder node q keeps its entry in.
MetadataFile(f, q) == IF NodeKind(f, q) = "dir" THEN Join(q, ShallowEntrySuffix) ELSE q

\* The node q is a placeholder that parses, with no real entry beside it.
BacksEntry(f, q) ==
    /\ ~Lstat(f, fullPath(q))
    /\ NodeKind(f, MetadataFile(f, q)) = "file"
    /\ Decode(ContentAt(f, MetadataFile(f, q))).ok

\* C24: a placeholder-backed file or directory entry reports the decoded
\* DirEntry as its metadata, and Open, Child and Readdir on it return a
\* not-supported error and no content, and change nothing.
C24_MetadataOnly ==
    /\ (last.op = "DirEntryOrNil" /\ BacksEntry(last.pre, last.path))
          => last.res = Found(Decode(ContentAt(last.pre, MetadataFile(last.pre, last.path))).de)
    /\ last.op \in {"Open", "Child", "Readdir"}
          => /\ ~last.ret.ok
             /\ last.ret.err = NotSupported
             /\ last.ret.data = <<>>
             /\ fs = last.pre

\* The path given to PathIfPlaceholder ends with the suffix.
EndsWithSuffix(p) == p # Root /\ HasSuffix(Last(p))

C24_Witness ==
    /\ last.op = "Open"
    /\ BacksEntry(last.pre, last.path)
    /\ NodeKind(last.pre, last.path) = "file"
    /\ ContentAt(last.pre, last.path) # <<>>
    /\ last.ret = NoContent(NotSupported)

(***************************************************************************)
(* What stands on disk for an entry after a shallow restore.               *)
(***************************************************************************)
\* The restore has completed and nothing has been changed since.
JustRestored ==
    op = IdleOp /\ hist.restored /\ hist.deepened = {} /\ hist.removed = {}

\* The entries the depth limit lets the restore write a node for.
WithinDepth == {rp \in RepoPaths : Len(rp) <= hist.depth + 1}

\* getShallowInfo: the three paths it stats for the logical path rp.
ShallowPaths(rp) == {rp, WithSuffix(rp), Join(WithSuffix(rp), ShallowEntrySuffix)}

TestFileObj == 30

TestFile == << <<"testfile">> >>
NewDir == << <<"newdir">> >>
ForeignDir == << <<"foreigndir">> >>

\* The root of the other snapshot: a directory object of the repository.
ForeignRoot == RepoEntry(<< <<"d1">> >>)

MutHist(orig) ==
    [restored |-> FALSE, depth |-> 0, k |-> 0, deepened |-> {}, removed |-> {},
     planted |-> {}, cutReal |-> {}, cutPh |-> {}, snapFailed |-> FALSE,
     original |-> orig, mutation |-> "doNothing"]

\* A rename that leaves behind what lies below the node.
RenameTopOnly(f, a, b) ==
    LET gone == {q \in DOMAIN f : IsPrefix(a, q)}
        g    == [x \in (DOMAIN f \ gone) \cup {b} |-> IF x = b THEN f[a] ELSE f[x]]
    IN  Touch(Touch(g, Parent(a)), Parent(b))

\* os.Rename(a, b): the node at a, and all below it, now at b.
Rename(f, a, b) ==
    LET moved == {q \in DOMAIN f : IsPrefix(a, q)}
        to(q) == b \o SubSeq(q, Len(a) + 1, Len(q))
        from(x) == a \o SubSeq(x, Len(b) + 1, Len(x))
        g     == [x \in (DOMAIN f \ moved) \cup {to(q) : q \in moved} |->
                    IF x \in DOMAIN f \ moved THEN f[x] ELSE f[from(x)]]
    IN  Touch(Touch(g, Parent(a)), Parent(b))

\* os.Chtimes(p, t, t)
Chtimes(f, p, t) == [f EXCEPT ![p].mtime = t]

\* No mutation has been applied, and the shallow tree is not yet snapshotted.
Unmutated ==
    /\ op = IdleOp
    /\ hist.restored
    /\ hist.mutation = "doNothing"
    /\ hist.deepened = {}
    /\ last.op # "snapshot"

\* findFileDir: the placeholders at the top of the shallow tree, by type.
TopPlaceholders(f, et) ==
    {P \in RepoPaths : /\ Len(P) = 1
                       /\ WithSuffix(P) \in PlaceholderNodes(f)
                       /\ SafelySuffixablePath(P)
                       /\ ReadShallowPlaceholder(f, P).some
                       /\ ReadShallowPlaceholder(f, P).de.type = et}

InitMutate ==
    /\ fs = EmptyFs
    /\ last = NoCall
    /\ op = IdleOp
    /\ work = {}
    /\ open = {}
    /\ hist = MutHist(FullRestoreFs)

\* addOneFile: one file, linked into both trees.
AddOneFile ==
    LET node == FileNode(ContentOf(TestFileObj), 420, Now)
    IN  /\ Unmutated
        /\ fs' = Put(fs, TestFile, node)
        /\ hist' = [hist EXCEPT !.original = Put(@, TestFile, node), !.mutation = "addOneFile"]
        /\ UNCHANGED <<last, op, work, open>>

\* moveFile and moveDirectory: the placeholder goes into a new directory of
\* the shallow tree and the real entry into one of the full tree; the two
\* new directories are given the same time.
MoveEntry(P, et) ==
    LET ph      == WithSuffix(P)
        shallow == Rename(Put(fs, NewDir, DirNode(493, Now)), ph, Join(NewDir, Last(ph)))
        orig    == Rename(Put(hist.original, NewDir, DirNode(493, Now)), P, Join(NewDir, Last(P)))
        t       == shallow[NewDir].mtime
    IN  /\ Unmutated
        /\ P \in TopPlaceholders(fs, et)
        /\ fs' = Chtimes(shallow, NewDir, t)
        /\ hist' = [hist EXCEPT !.original = Chtimes(orig, NewDir, t),
                                !.mutation = IF et = EntryTypeFile THEN "moveFile"
                                             ELSE "moveDirectory"]
        /\ UNCHANGED <<last, op, work, open>>

\* removeEntry: a file placeholder and a directory placeholder are removed,
\* and the entries they stand for are removed from the full tree.
RemoveEntry(F, D) ==
    /\ Unmutated
    /\ F \in TopPlaceholders(fs, EntryTypeFile)
    /\ D \in TopPlaceholders(fs, EntryTypeDirectory)
    /\ fs' = RemoveAll(RemoveAll(fs, WithSuffix(F)), WithSuffix(D))
    /\ hist' = [hist EXCEPT !.original = RemoveAll(RemoveAll(@, F), D),
                            !.mutation = "removeEntry"]
    /\ UNCHANGED <<last, op, work, open>>

\* The full restore of the other snapshot, below the directory dir.
ForeignFull(dir) ==
    LET below == {r \in Repo : IsPrefix(ObjPath(ForeignRoot), r.path)
                               /\ r.path # ObjPath(ForeignRoot)}
        at(r) == dir \o SubSeq(r.path, Len(ObjPath(ForeignRoot)) + 1, Len(r.path))
    IN  [x \in {at(r) : r \in below} |-> NodeOfEntry((CHOOSE r \in below : at(r) = x).de)]

\* addForeignSnapshotTree: the other snapshot is restored in full into a
\* directory of the full tree, and its --shallow=0 restore into the same
\* directory of the shallow tree is started.
AddForeignSnapshotTree ==
    LET full == ForeignFull(ForeignDir)
        orig == Put(hist.original, ForeignDir, DirNode(448, Now))
    IN  /\ Unmutated
        /\ fs' = Put(fs, ForeignDir, DirNode(448, Now))
        /\ op' = [kind |-> "restore", shallow |-> 0, root |-> ForeignDir, err |-> ""]
        /\ work' = {WorkItem(Join(ForeignDir, m.name), m.de, 1) : m \in Manifest(ForeignRoot)}
        /\ hist' = [hist EXCEPT
                      !.original = [x \in DOMAIN orig \cup DOMAIN full |->
                                       IF x \in DOMAIN full THEN full[x] ELSE orig[x]],
                      !.mutation = "addForeignSnapshotTree"]
        /\ UNCHANGED <<last, open>>

NextMutate ==
    \/ \E D \in 0..MaxShallow : StartRestore(D)
    \/ \E w \in work : op.err = "" /\ CopyShallow(w)
    \/ \E w \in work : op.err = "" /\ CopyFile(w)
    \/ \E w \in work : op.err = "" /\ CopySymlink(w)
    \/ \E w \in work : op.err = "" /\ BeginDirectory(w)
    \/ \E w \in open : op.err = "" /\ FinishDirectory(w)
    \/ OpDone
    \/ AddOneFile
    \/ \E P \in LogicalPaths, et \in {EntryTypeFile, EntryTypeDirectory} : MoveEntry(P, et)
    \/ \E F \in LogicalPaths, D \in LogicalPaths : RemoveEntry(F, D)
    \/ \E P \in LogicalPaths, k \in DeepenDepths : Unmutated /\ DeepenStart(P, k)
    \/ AddForeignSnapshotTree
    \/ SnapshotCreate

SpecMutate == InitMutate /\ [][NextMutate]_vars

\* The full restore of the snapshot of the shallow tree that was snapshotted.
RestoredSnapshot == RestoreOf(SnapshotTree(last.pre))

AtDepthLimit ==
    {rp \in RepoPaths : /\ Len(rp) = hist.depth + 1
                        /\ RepoEntry(rp).type \in {EntryTypeFile, EntryTypeDirectory}
                        /\ (Len(rp) = 1 \/ NodeKind(fs, Parent(rp)) = "dir")}

\* getShallowInfo: the node found for the logical path rp, the last of the
\* three paths that exists.
ShallowInfo(f, rp) ==
    IF Lstat(f, Join(WithSuffix(rp), ShallowEntrySuffix))
    THEN f[LPath(f, Join(WithSuffix(rp), ShallowEntrySuffix))]
    ELSE IF Lstat(f, WithSuffix(rp)) THEN f[LPath(f, WithSuffix(rp))]
    ELSE IF Lstat(f, rp) THEN f[LPath(f, rp)]
    ELSE Absent

\* The permission bits, and those of them that allow writing.
PermBits == {256, 128, 64, 32, 16, 8, 4, 2, 1}
WriteBits == {128, 16, 2}

\* The node has the attributes of a placeholder of the entry: a regular
\* file, no write bit set, every other bit and the time as in the entry.
PlaceholderAttributes(n, de) ==
    /\ n.kind = "file"
    /\ \A b \in PermBits : Bit(n.mode, b) = IF b \in WriteBits THEN 0 ELSE Bit(de.mode, b)
    /\ n.mode < 512
    /\ n.mtime = de.mtime

\* Every symlink that the restore reached has the mode of its entry and its
\* time to the microsecond.
SymlinkAttributes ==
    \A rp \in RepoPaths :
        (/\ RepoEntry(rp).type = EntryTypeSymlink
         /\ (Len(rp) = 1 \/ NodeKind(fs, Parent(rp)) = "dir"))
            => /\ NodeKind(fs, rp) = "symlink"
               /\ fs[rp].mode = RepoEntry(rp).mode
               /\ fs[rp].mtime - RepoEntry(rp).mtime <= Micro
               /\ RepoEntry(rp).mtime - fs[rp].mtime <= Micro

AbortHist ==
    [restored |-> FALSE, depth |-> 0, k |-> 0, deepened |-> {}, removed |-> {},
     planted |-> {}, cutReal |-> {}, cutPh |-> {}, snapFailed |-> FALSE,
     cancelled |-> FALSE, failed |-> {}, kept |-> EmptyFs]

\* A restore that goes on with other entries after an error.
MayStartAfterError(o, h) == ~h.cancelled

\* A restore that does not look at the cancellation signal.
MayStartCancelled(o, h) == o.err = ""

\* Between two units of work: the next one is started only if no error has
\* occurred and the cancellation signal is not raised.
MayStart(o, h) == o.err = "" /\ ~h.cancelled

InitAbort ==
    /\ fs = EmptyFs
    /\ last = NoCall
    /\ op = IdleOp
    /\ work = {}
    /\ open = {}
    /\ hist = AbortHist

\* The write of the entry fails (permission denied, disk full): nothing is
\* written for it, or, for a directory placeholder, the directory only.
IoFail(w, partial) ==
    LET made == placeholderPath(fs, w.path, w.de.type).fs
        f    == IF partial /\ IsShallow(w) /\ w.de.type = EntryTypeDirectory THEN made ELSE fs
    IN  /\ fs' = f
        /\ op' = [op EXCEPT !.err = "io"]
        /\ hist' = [hist EXCEPT !.failed = @ \cup {w.path}, !.kept = f]
        /\ UNCHANGED <<last, work, open>>

\* The cancellation signal is raised while the restore runs.
Cancel ==
    /\ op.kind = "restore"
    /\ ~hist.cancelled
    /\ hist' = [hist EXCEPT !.cancelled = TRUE, !.kept = IF hist.failed = {} THEN fs ELSE @]
    /\ UNCHANGED <<fs, last, op, work, open>>

\* What the restore returns: its first error, that it was cancelled, or success.
RestoreResult ==
    IF op.err # "" THEN Failed(op.err)
    ELSE IF work = {} /\ open = {} THEN None
    ELSE Failed("cancelled")

\* The restore returns to its caller; the tree stays as it is.
RestoreReturn ==
    /\ op.kind = "restore"
    /\ op.err # "" \/ hist.cancelled \/ (work = {} /\ open = {})
    /\ last' = Call("restore", op.root, ZeroEntry, RestoreResult, fs)
    /\ hist' = [hist EXCEPT !.restored = (RestoreResult = None)]
    /\ op' = IdleOp
    /\ work' = {}
    /\ open' = {}
    /\ UNCHANGED fs

NextAbort ==
    \/ \E D \in ShallowDepths : last.op # "restore" /\ StartRestore(D)
    \/ \E w \in work : MayStart(op, hist) /\ CopyShallow(w)
    \/ \E w \in work : MayStart(op, hist) /\ CopyFile(w)
    \/ \E w \in work : MayStart(op, hist) /\ CopySymlink(w)
    \/ \E w \in work : MayStart(op, hist) /\ BeginDirectory(w)
    \/ \E w \in open : MayStart(op, hist) /\ FinishDirectory(w)
    \/ \E w \in work, partial \in BOOLEAN : MayStart(op, hist) /\ IoFail(w, partial)
    \/ Cancel
    \/ RestoreReturn

SpecAbort == InitAbort /\ [][NextAbort]_vars

\* The restore keeps running: when it can return, it does.
SpecAbortFair == SpecAbort /\ WF_vars(RestoreReturn)

\* Every entry whose directory is on disk has its node, real or placeholder,
\* and no directory waits for its attributes.
AllWritten(f) ==
    \A rp \in RepoPaths :
        (Len(rp) = 1 \/ NodeKind(f, Parent(rp)) = "dir")
            => (Lstat(f, rp) \/ Lstat(f, WithSuffix(rp)))

\* C29: when an I/O error occurs while an entry is materialized the restore
\* stops and returns that error; it never reports success when some entry
\* was not written, and nothing already written is rolled back.
C29_FailurePolicy ==
    /\ hist.failed # {}
          => /\ fs = hist.kept
             /\ op.kind = "restore" => op.err = "io"
             /\ op.kind = "idle" => last.res = Failed("io")
    /\ (last.op = "restore" /\ last.res.err = "")
          => /\ hist.failed = {}
             /\ AllWritten(fs)

\* The restore has returned the I/O error of an entry; entries written
\* before it are on disk and others are not.
C29_Witness ==
    /\ last.op = "restore"
    /\ last.res = Failed("io")
    /\ hist.failed # {}
    /\ ~hist.cancelled
    /\ fs # EmptyFs
    /\ ~AllWritten(fs)

\* C30: once the cancellation signal is raised a running restore starts no
\* further unit of work and changes no node, and it eventually returns.
C30_Cancellation ==
    /\ [][hist.cancelled => (fs' = fs /\ (work' = work \/ op'.kind = "idle"))]_vars
    /\ (hist.cancelled /\ op.kind = "restore") ~> (op.kind = "idle")

\* The restore was cancelled with part of the tree written and work left,
\* and has returned with that part in place.
C30_Witness ==
    /\ last.op = "restore"
    /\ last.res = Failed("cancelled")
    /\ hist.cancelled
    /\ hist.failed = {}
    /\ fs # EmptyFs
    /\ fs = hist.kept
    /\ ~AllWritten(fs)

(***************************************************************************)
(* The join barrier on a directory's attributes (spec 4.2 and 5).          *)
(***************************************************************************)
\* The children of the directory rp all have their node, real or placeholder.
ChildrenWritten(f, rp) ==
    \A c \in RepoPaths : Parent(c) = rp => (Lstat(f, c) \/ Lstat(f, WithSuffix(c)))

\* The real directories of the tree the Materializer has finished: none of
\* their entries is queued or open, and no placeholder in them was deepened
\* or removed afterwards.
FinishedDirectories ==
    {rp \in RepoPaths :
        /\ NodeKind(fs, rp) = "dir"
        /\ \A x \in work \cup open : ~IsPrefix(rp, x.path)
        /\ \A P \in hist.deepened \cup hist.removed : Parent(P) # rp}

\* C31: for every real directory the Materializer creates, the step that
\* sets its mtime comes after the writes of all of its children, in every
\* interleaving of the workers, so that the final mtime is the entry's.
C31_JoinBarrier ==
    /\ [](\A rp \in FinishedDirectories :
             /\ ChildrenWritten(fs, rp)
             /\ fs[rp].mtime = RepoEntry(rp).mtime
             /\ fs[rp].mode = RepoEntry(rp).mode)
    /\ [][\A w \in open : w \notin open' =>
             (op'.kind = "idle" \/ (ChildrenWritten(fs, w.path)
                                     /\ \A x \in work \cup open : x = w \/ ~IsPrefix(w.path, x.path)))]_vars

\* The directory d1 has its final time with its children written, a real
\* directory among them, while another directory is still being written.
C31_Witness ==
    /\ op.kind = "restore"
    /\ << <<"d1">> >> \in FinishedDirectories
    /\ NodeKind(fs, << <<"d1">>, <<"d2">> >>) = "dir"
    /\ fs[<< <<"d1">> >>].mtime = RepoEntry(<< <<"d1">> >>).mtime
    /\ fs[<< <<"d1">> >>].mtime # Now
    /\ open # {}

(***************************************************************************)
(* repoDirEntryCache: the entries of the repository, fetched one directory *)
(* manifest at a time.  hist.direntries is the cache, hist.shown the       *)
(* directories whose manifest was fetched and hist.n the number of lookups.*)
(***************************************************************************)
\* The number of lookups followed.
MaxLookups == 3

EmptyCache == [x \in {} |-> ZeroEntry]

CacheHist(c, shown, n) == [direntries |-> c, shown |-> shown, n |-> n]

\* Paths that are looked up: those of the repository, the root, a name that
\* no directory holds, and names below a file and below nothing.
LookupPaths ==
    RepoPaths \cup {Root, << <<"nofile">> >>, << <<"d1">>, <<"nofile">> >>,
                    << <<"f1">>, <<"x">> >>, << <<"nodir">>, <<"x">> >>}

\* kopia show of the directory dir: the entries of its manifest as decoded
\* from the JSON printed, or a failure when dir is no directory.
Show(dir) ==
    IF dir = Root
    THEN [ok |-> TRUE, entries |-> {Decode(Encode(m.de)).de : m \in RootManifest}]
    ELSE IF dir \in RepoPaths /\ RepoEntry(dir).type = EntryTypeDirectory
    THEN [ok |-> TRUE, entries |-> {Decode(Encode(m.de)).de : m \in Manifest(RepoEntry(dir))}]
    ELSE [ok |-> FALSE, entries |-> {}]

\* The cache with the entries of the directory dir added.
Filled(c, dir, entries) ==
    [x \in DOMAIN c \cup {Join(dir, de.name) : de \in entries} |->
        IF \E de \in entries : Join(dir, de.name) = x
        THEN CHOOSE de \in entries : Join(dir, de.name) = x
        ELSE c[x]]

\* A cache that keeps only the entry that was asked for.
getRepoDirEntryOnlyAsked(c, rop) ==
    LET dir  == Parent(rop)
        sh   == Show(dir)
        full == Filled(c, dir, {de \in sh.entries : Join(dir, de.name) = rop})
    IN  IF rop \in DOMAIN c
        THEN [ok |-> TRUE, de |-> c[rop], cache |-> c, shown |-> {}]
        ELSE IF ~sh.ok
        THEN [ok |-> FALSE, de |-> ZeroEntry, cache |-> c, shown |-> {dir}]
        ELSE IF rop \in DOMAIN full
        THEN [ok |-> TRUE, de |-> full[rop], cache |-> full, shown |-> {dir}]
        ELSE [ok |-> FALSE, de |-> ZeroEntry, cache |-> full, shown |-> {dir}]

\* getRepoDirEntry: the entry from the cache, or after one fetch of the
\* manifest of its directory, all of whose entries are cached.
getRepoDirEntry(c, rop) ==
    LET dir  == Parent(rop)
        sh   == Show(dir)
        full == Filled(c, dir, sh.entries)
    IN  IF rop \in DOMAIN c
        THEN [ok |-> TRUE, de |-> c[rop], cache |-> c, shown |-> {}]
        ELSE IF ~sh.ok
        THEN [ok |-> FALSE, de |-> ZeroEntry, cache |-> c, shown |-> {dir}]
        ELSE IF rop \in DOMAIN full
        THEN [ok |-> TRUE, de |-> full[rop], cache |-> full, shown |-> {dir}]
        ELSE [ok |-> FALSE, de |-> ZeroEntry, cache |-> full, shown |-> {dir}]

InitCache ==
    /\ fs = EmptyFs
    /\ last = NoCall
    /\ op = IdleOp
    /\ work = {}
    /\ open = {}
    /\ hist = CacheHist(EmptyCache, {}, 0)

\* One lookup; last keeps what it returned, whether it fetched, and the
\* cache and the fetched directories as they were before.
LookupEntry(rop) ==
    LET r == getRepoDirEntry(hist.direntries, rop)
    IN  /\ hist.n < MaxLookups
        /\ last' = [op |-> "lookup", path |-> rop, de |-> ZeroEntry,
                    res |-> IF r.ok THEN Found(r.de) ELSE Failed("fatal"),
                    pre |-> fs, fetched |-> r.shown,
                    cacheBefore |-> hist.direntries, shownBefore |-> hist.shown]
        /\ hist' = CacheHist(r.cache, hist.shown \cup (IF Show(Parent(rop)).ok THEN r.shown ELSE {}),
                             hist.n + 1)
        /\ UNCHANGED <<fs, op, work, open>>

NextCache == \E rop \in LookupPaths : LookupEntry(rop)

SpecCache == InitCache /\ [][NextCache]_vars

\* The entries the manifest of the directory dir holds, by path.
ManifestEntries(dir) ==
    {r \in Repo : r.path # Root /\ Parent(r.path) = dir}

\* C32: a lookup of an entry absent from the cache fetches the manifest of
\* its directory once and caches every entry of it; a later lookup of that
\* entry or of a sibling is answered from the cache without a fetch, with the
\* entry the manifest holds; a path absent from the manifest fails.
C32_ManifestCache ==
    /\ \A p \in DOMAIN hist.direntries : p \in RepoPaths /\ hist.direntries[p] = RepoEntry(p)
    /\ last.op = "lookup"
          => /\ last.path \notin DOMAIN last.cacheBefore
                   => /\ last.fetched = {Parent(last.path)}
                      /\ \A r \in ManifestEntries(Parent(last.path)) :
                            r.path \in DOMAIN hist.direntries
             /\ (last.path \in RepoPaths /\ Parent(last.path) \in last.shownBefore)
                   => /\ last.fetched = {}
                      /\ last.path \in DOMAIN last.cacheBefore
             /\ last.path \in DOMAIN last.cacheBefore => last.fetched = {}
             /\ last.path \in RepoPaths => last.res = Found(RepoEntry(last.path))
             /\ last.path \notin RepoPaths => last.res = Failed("fatal")

\* An entry of d1 was looked up and found in the cache; the manifest of d1
\* had been fetched for one of its siblings.
C32_Witness ==
    /\ last.op = "lookup"
    /\ last.path = << <<"d1">>, <<"f2">> >>
    /\ last.fetched = {}
    /\ << <<"d1">> >> \in last.shownBefore
    /\ last.res = Found(RepoEntry(<< <<"d1">>, <<"f2">> >>))
    /\ hist.n = 2

(***************************************************************************)
(* walkTree: the walk of a directory tree whose subdirectories are loaded  *)
(* by a pool of workers.  fs holds one record per directory walkTree2 was  *)
(* called for: its listing, the channel subdirChannels and the position of *)
(* the goroutine feeding it, the channels m[i] and the workers, a bag of    *)
(* goroutines that nothing tells apart but what each is doing.  op is the  *)
(* walking goroutine with its stack of walkTree2 calls; hist holds the     *)
(* output channel, parallelReads and whether a load has failed.            *)
(***************************************************************************)
maxWorkerCount == 3

\* make(chan *subdirEntry, 10) and make(chan fs.Directory, 10)
SubdirChanCap == 10

\* make(chan *fs.Entry, 20)
EntryChanCap == 20

\* The tree walked: the listing of each directory, entries by their path.
WalkA == << <<"a">> >>
WalkB == << <<"b">> >>
WalkC == << <<"c">> >>
WalkD == << <<"d">> >>
WalkX == << <<"a">>, <<"x">> >>

WalkDirs == {Root, WalkA, WalkB, WalkC, WalkD, WalkX}

ReadDirectory(d) ==
    IF d = Root THEN <<WalkA, WalkB, WalkC, WalkD>>
    ELSE IF d = WalkA THEN <<WalkX>>
    ELSE <<>>

\* e.FileMode.IsDir()
IsDirEntry(e) == e \in WalkDirs

SubdirIndexes(dir) == {i \in 1..Len(dir) : IsDirEntry(dir[i])}

NewChan == [buf |-> <<>>, closed |-> FALSE]

NewWorker == [pc |-> "recv", se |-> 0, defers |-> {}]

\* The state walkTree2 sets up for the listing dir before its loop.
Level(dir) ==
    LET workerCount == IF Cardinality(SubdirIndexes(dir)) > maxWorkerCount
                       THEN maxWorkerCount ELSE Cardinality(SubdirIndexes(dir))
    IN  [listing |-> dir,
         subdirChannels |-> NewChan,
         fed |-> 0,
         m |-> [i \in SubdirIndexes(dir) |-> NewChan],
         workers |-> [w \in {x \in {NewWorker} : workerCount > 0} |-> workerCount]]

Frame(d, i, pc) == [dir |-> d, i |-> i, pc |-> pc]

WalkOp(pc, stack) == [kind |-> "walk", pc |-> pc, stack |-> stack]

WalkHist(out, closed, reads, failed) ==
    [out |-> out, closed |-> closed, parallelReads |-> reads, failed |-> failed]

InitWalk ==
    /\ fs = EmptyFs
    /\ last = NoCall
    /\ op = WalkOp("start", <<>>)
    /\ work = {}
    /\ open = {}
    /\ hist = WalkHist(<<>>, FALSE, 0, FALSE)

\* walkTree2 is entered for directory d with the listing dir.
Enter(d, dir) == [x \in DOMAIN fs \cup {d} |-> IF x = d THEN Level(dir) ELSE fs[x]]

\* walkTree's goroutine: the root is opened and read; on an error the output
\* channel is closed at once, otherwise walkTree2 starts on the listing.
walkTree(ok) ==
    /\ op.pc = "start"
    /\ IF ok
       THEN /\ fs' = Enter(Root, ReadDirectory(Root))
            /\ op' = WalkOp("walking", <<Frame(Root, 1, "loop")>>)
            /\ hist' = hist
       ELSE /\ fs' = fs
            /\ op' = WalkOp("done", <<>>)
            /\ hist' = [hist EXCEPT !.closed = TRUE, !.failed = TRUE]
    /\ UNCHANGED <<last, work, open>>

\* The feeding goroutine sends the next subdirectory on subdirChannels.
FeederSend(d) ==
    LET lv   == fs[d]
        rest == {i \in SubdirIndexes(lv.listing) : i > lv.fed}
    IN  /\ ~lv.subdirChannels.closed
        /\ rest # {}
        /\ Len(lv.subdirChannels.buf) < SubdirChanCap
        /\ fs' = [fs EXCEPT ![d].subdirChannels.buf = Append(@, MinOf(rest)),
                            ![d].fed = MinOf(rest)]
        /\ UNCHANGED <<last, op, work, open, hist>>

\* The feeding goroutine closes subdirChannels after the last subdirectory.
FeederClose(d) ==
    LET lv   == fs[d]
        rest == {i \in SubdirIndexes(lv.listing) : i > lv.fed}
    IN  /\ ~lv.subdirChannels.closed
        /\ rest = {}
        /\ fs' = [fs EXCEPT ![d].subdirChannels.closed = TRUE]
        /\ UNCHANGED <<last, op, work, open, hist>>

\* The workers with the worker w now being v.
Becomes(workers, w, v) == (workers (-) SetToBag({w})) (+) SetToBag({v})

\* The worker returns: the deferred closes of the channels of every
\* subdirectory it received run now.
WorkerExit(lv, w) ==
    [lv EXCEPT !.workers = Becomes(@, w, [pc |-> "done", se |-> 0, defers |-> {}]),
               !.m = [i \in DOMAIN lv.m |->
                        IF i \in w.defers
                        THEN [lv.m[i] EXCEPT !.closed = TRUE] ELSE lv.m[i]]]

\* se, ok := <-subdirChannels with the channel closed and empty: the worker
\* leaves its loop and returns.
WorkerQuit(d, w) ==
    LET lv == fs[d]
        sc == lv.subdirChannels
    IN  /\ w.pc = "recv"
        /\ sc.buf = <<>>
        /\ sc.closed
        /\ fs' = [fs EXCEPT ![d] = WorkerExit(lv, w)]
        /\ UNCHANGED <<last, op, work, open, hist>>

\* se, ok := <-subdirChannels; defer close(se.dirChannel); omgr.Open of the
\* subdirectory, on whose error the worker returns; parallelReads is
\* incremented.
WorkerOpen(d, w, ok) ==
    LET lv  == fs[d]
        sc  == lv.subdirChannels
        v   == [pc |-> "read", se |-> Head(sc.buf), defers |-> w.defers \cup {Head(sc.buf)}]
        got == [lv EXCEPT !.subdirChannels.buf = Tail(@), !.workers = Becomes(@, w, v)]
    IN  /\ w.pc = "recv"
        /\ sc.buf # <<>>
        /\ IF ok
           THEN /\ fs' = [fs EXCEPT ![d] = got]
                /\ hist' = [hist EXCEPT !.parallelReads = @ + 1]
           ELSE /\ fs' = [fs EXCEPT ![d] = WorkerExit(got, v)]
                /\ hist' = [hist EXCEPT !.failed = TRUE]
        /\ UNCHANGED <<last, op, work, open>>

\* fs.ReadDirectory returns and parallelReads is decremented; the listing
\* is sent on the channel of the subdirectory, or the worker returns on an
\* error.
WorkerRead(d, w, ok) ==
    LET lv == fs[d]
    IN  /\ w.pc = "read"
        /\ IF ok
           THEN /\ Len(lv.m[w.se].buf) < SubdirChanCap
                /\ fs' = [fs EXCEPT ![d].workers = Becomes(@, w, [w EXCEPT !.pc = "recv", !.se = 0]),
                                    ![d].m[w.se].buf = Append(@, ReadDirectory(lv.listing[w.se]))]
                /\ hist' = [hist EXCEPT !.parallelReads = @ - 1]
           ELSE /\ fs' = [fs EXCEPT ![d] = WorkerExit(lv, w)]
                /\ hist' = [hist EXCEPT !.parallelReads = @ - 1, !.failed = TRUE]
        /\ UNCHANGED <<last, op, work, open>>

Top == op.stack[Len(op.stack)]

\* The stack with the top frame replaced by fr and the frame below pushed.
Descend(fr, below) == Append([op.stack EXCEPT ![Len(op.stack)] = fr], below)

\* The walk receiving whichever subdirectory listing is ready.
MainRecvAny ==
    LET lv == fs[Top.dir]
        e  == lv.listing[Top.i]
    IN  /\ op.pc = "walking"
        /\ Top.pc = "loop"
        /\ Top.i <= Len(lv.listing)
        /\ IsDirEntry(e)
        /\ \E j \in DOMAIN lv.m :
              /\ lv.m[j].buf # <<>>
              /\ fs' = [x \in DOMAIN fs \cup {e} |->
                          IF x = e THEN Level(Head(lv.m[j].buf))
                          ELSE IF x = Top.dir THEN [lv EXCEPT !.m[j].buf = Tail(@)]
                          ELSE fs[x]]
        /\ op' = [op EXCEPT !.stack = Descend(Frame(Top.dir, Top.i, "emit"), Frame(e, 1, "loop"))]
        /\ UNCHANGED <<last, work, open, hist>>

\* subdir := <-m[i]; walkTree2(ch, omgr, e.Name+"/", subdir): the listing a
\* worker sent, or nil from a channel closed without one.
MainRecv ==
    LET lv == fs[Top.dir]
        e  == lv.listing[Top.i]
        c  == lv.m[Top.i]
    IN  /\ op.pc = "walking"
        /\ Top.pc = "loop"
        /\ Top.i <= Len(lv.listing)
        /\ IsDirEntry(e)
        /\ c.buf # <<>> \/ c.closed
        /\ fs' = [x \in DOMAIN fs \cup {e} |->
                    IF x = e THEN Level(IF c.buf # <<>> THEN Head(c.buf) ELSE <<>>)
                    ELSE IF x = Top.dir /\ c.buf # <<>> THEN [lv EXCEPT !.m[Top.i].buf = Tail(@)]
                    ELSE fs[x]]
        /\ op' = [op EXCEPT !.stack = Descend(Frame(Top.dir, Top.i, "emit"), Frame(e, 1, "loop"))]
        /\ UNCHANGED <<last, work, open, hist>>

\* ch <- e
MainEmit ==
    LET lv == fs[Top.dir]
        e  == lv.listing[Top.i]
    IN  /\ op.pc = "walking"
        /\ Top.i <= Len(lv.listing)
        /\ Top.pc = "emit" \/ ~IsDirEntry(e)
        /\ Len(hist.out) < EntryChanCap
        /\ hist' = [hist EXCEPT !.out = Append(@, e)]
        /\ op' = [op EXCEPT !.stack[Len(op.stack)] = Frame(Top.dir, Top.i + 1, "loop")]
        /\ UNCHANGED <<fs, last, work, open>>

\* walkTree2 returns; when it returns to walkTree the deferred close(ch) runs.
MainReturn ==
    /\ op.pc = "walking"
    /\ Top.i > Len(fs[Top.dir].listing)
    /\ IF Len(op.stack) = 1
       THEN /\ op' = WalkOp("done", <<>>)
            /\ hist' = [hist EXCEPT !.closed = TRUE]
       ELSE /\ op' = [op EXCEPT !.stack = SubSeq(@, 1, Len(@) - 1)]
            /\ hist' = hist
    /\ UNCHANGED <<fs, last, work, open>>

NextWalk ==
    \/ \E ok \in BOOLEAN : walkTree(ok)
    \/ \E d \in DOMAIN fs : FeederSend(d)
    \/ \E d \in DOMAIN fs : FeederClose(d)
    \/ \E d \in DOMAIN fs : \E w \in BagToSet(fs[d].workers) : WorkerQuit(d, w)
    \/ \E d \in DOMAIN fs : \E w \in BagToSet(fs[d].workers), ok \in BOOLEAN : WorkerOpen(d, w, ok)
    \/ \E d \in DOMAIN fs : \E w \in BagToSet(fs[d].workers), ok \in BOOLEAN : WorkerRead(d, w, ok)
    \/ MainRecv
    \/ MainEmit
    \/ MainReturn

SpecWalk == InitWalk /\ [][NextWalk]_vars

\* Every goroutine that can take a step is scheduled eventually.
SpecWalkFair == SpecWalk /\ WF_vars(NextWalk)

\* C33: at every moment of the walk the number of directory loads in flight,
\* as parallelReads counts them, is at most maxWorkerCount.
C33_BoundedPool == hist.parallelReads <= maxWorkerCount

\* The entries below the directory d in depth-first order, every directory
\* after what it holds.
RECURSIVE PostOrderOf(_)
PostOrderOf(dir) ==
    IF dir = <<>> THEN <<>>
    ELSE (IF IsDirEntry(Head(dir)) THEN PostOrderOf(ReadDirectory(Head(dir))) ELSE <<>>)
         \o <<Head(dir)>> \o PostOrderOf(Tail(dir))

PostOrder == PostOrderOf(ReadDirectory(Root))

\* C34: when every directory load succeeds, the walk emits every entry of
\* the tree exactly once in depth-first order, the entries of a directory in
\* the order of its listing and directly before the directory itself, in
\* whatever order the workers finish; the output channel is then closed.
C34_DepthFirstOrder ==
    /\ [](~hist.failed => IsPrefix(hist.out, PostOrder))
    /\ <>(hist.failed \/ (hist.closed /\ hist.out = PostOrder))

\* The walk is over without a failed load: d was loaded before a, whose
\* entries were yet emitted first.
C34_Witness ==
    /\ hist.closed
    /\ ~hist.failed
    /\ hist.out = <<WalkX, WalkA, WalkB, WalkC, WalkD>>
    /\ fs[Root].m[4].closed
    /\ ~fs[Root].m[1].closed

\* A goroutine waits on a channel of subdirectories: a worker or the walk
\* itself on a receive, or the feeder on a send.
Blocked ==
    \/ op.pc = "walking"
    \/ \E d \in DOMAIN fs :
          \/ \E w \in BagToSet(fs[d].workers) : w.pc # "done"
          \/ ~fs[d].subdirChannels.closed

\* C35: in every execution of walkTree, failed loads included, the walk
\* finishes and closes its output channel, and no goroutine stays blocked on
\* a subdirectory channel.
C35_Termination ==
    /\ <>hist.closed
    /\ <>[]~Blocked

\* The node at path+suffix in the filesystem f holds no entry that parses:
\* a file that is empty or malformed, or a directory whose metadata file is
\* missing or does not parse.
Unparseable(f, path) ==
    LET php == WithSuffix(path)
        mf  == Join(php, ShallowEntrySuffix)
    IN  \/ NodeKind(f, php) = "file" /\ ~Decode(ContentAt(f, php)).ok
        \/ /\ NodeKind(f, php) = "dir"
           /\ \/ ~Lstat(f, mf)
              \/ NodeKind(f, mf) = "file" /\ ~Decode(ContentAt(f, mf)).ok

\* C36: with no real entry at path and a node at path+suffix that yields no
\* parseable entry, ReadShallowPlaceholder(path) returns an error: never nil
\* without an error and never an entry.
C36_UnparseableIsError ==
    (last.op = "read" /\ ~Lstat(last.pre, last.path) /\ Unparseable(last.pre, last.path))
        => /\ last.res.err # ""
           /\ ~last.res.some
           /\ last.res # None

\* A directory at path+suffix without its metadata file was read.
C36_Witness ==
    /\ last.op = "read"
    /\ ~Lstat(last.pre, last.path)
    /\ NodeKind(last.pre, PrePh) = "dir"
    /\ ~Lstat(last.pre, PrePhFile)
    /\ last.res.err # ""

(***************************************************************************)
(* Sessions: the format of a repository kept in a config block of the      *)
(* storage, one block per username.  fs is the storage, a map from block   *)
(* ID to data; strings are sequences of tokens.  hist.format holds, for    *)
(* each credentials, the format last initialised with success.             *)
(***************************************************************************)
\* s.creds == nil
NoCreds == [nil |-> TRUE, username |-> <<>>]

Creds(u) == [nil |-> FALSE, username |-> u]

Credentials == {NoCreds, Creds(<<>>), Creds(<<"a">>), Creds(<<"b">>), Creds(<<"config.json">>)}

NoFormat == [Version |-> "", Hash |-> ""]

Formats ==
    {[Version |-> "1", Hash |-> "md5"], [Version |-> "2", Hash |-> "sha1"],
     [Version |-> "1", Hash |-> "bogus"]}

\* json.Marshal(format)
MarshalFormat(f) == <<"{", "Version", f.Version, "Hash", f.Hash, "}">>

\* json.Unmarshal(b, &format)
UnmarshalFormat(b) ==
    IF /\ Len(b) = 6
       /\ b[1] = "{" /\ b[2] = "Version" /\ b[4] = "Hash" /\ b[6] = "}"
    THEN [ok |-> TRUE, format |-> [Version |-> b[3], Hash |-> b[5]]]
    ELSE [ok |-> FALSE, format |-> NoFormat]

\* cas.NewObjectManager(storage, format): a manager for the format, or an
\* error for a format the object manager does not support.
NewObjectManager(f) ==
    IF f.Hash \in {"md5", "sha1"}
    THEN [err |-> "", mgr |-> f]
    ELSE [err |-> "unsupported", mgr |-> NoFormat]

\* A block ID that does not depend on the username.
getConfigBlockIDShared(creds) ==
    IF creds.nil THEN <<"config.json">> ELSE <<"users.", ".config.json">>

getConfigBlockID(creds) ==
    IF creds.nil THEN <<"config.json">>
    ELSE <<"users.">> \o creds.username \o <<".config.json">>

\* s.storage.GetBlock(blkID)
getPrivateBlock(storage, blkID) ==
    IF blkID \in DOMAIN storage
    THEN [err |-> "", b |-> storage[blkID]]
    ELSE [err |-> "unable to read block", b |-> <<>>]

\* s.storage.PutBlock(blkID, data, blob.PutOptions{}) when it succeeds.
encryptBlockWithPublicKey(storage, blkID, data) ==
    [x \in DOMAIN storage \cup {blkID} |-> IF x = blkID THEN data ELSE storage[x]]

SessionCall(o, creds, f, res) ==
    [op |-> o, creds |-> creds, format |-> f, err |-> res.err, mgr |-> res.mgr]

InitSession ==
    /\ fs = [x \in {} |-> <<>>]
    /\ last = SessionCall("none", NoCreds, NoFormat, [err |-> "", mgr |-> NoFormat])
    /\ op = IdleOp
    /\ work = {}
    /\ open = {}
    /\ hist = [format |-> [c \in Credentials |-> NoFormat]]

\* InitObjectManager on a session with the credentials creds; put tells
\* whether the storage accepts the block.
InitObjectManager(creds, format, put) ==
    LET made == NewObjectManager(format)
    IN  /\ IF made.err # ""
           THEN /\ last' = SessionCall("init", creds, format, made)
                /\ UNCHANGED <<fs, hist>>
           ELSE IF ~put
           THEN /\ last' = SessionCall("init", creds, format,
                                       [err |-> "unable to write block", mgr |-> NoFormat])
                /\ UNCHANGED <<fs, hist>>
           ELSE /\ fs' = encryptBlockWithPublicKey(fs, getConfigBlockID(creds), MarshalFormat(format))
                /\ last' = SessionCall("init", creds, format, made)
                /\ hist' = [hist EXCEPT !.format[creds] = format]
        /\ UNCHANGED <<op, work, open>>

\* OpenObjectManager on a session with the credentials creds.
OpenObjectManager(creds) ==
    LET got == getPrivateBlock(fs, getConfigBlockID(creds))
        un  == UnmarshalFormat(got.b)
    IN  /\ last' = SessionCall("open", creds, NoFormat,
                       IF got.err # "" THEN [err |-> got.err, mgr |-> NoFormat]
                       ELSE IF ~un.ok THEN [err |-> "json", mgr |-> NoFormat]
                       ELSE NewObjectManager(un.format))
        /\ UNCHANGED <<fs, op, work, open, hist>>

NextSession ==
    \/ \E creds \in Credentials, f \in Formats, put \in BOOLEAN : InitObjectManager(creds, f, put)
    \/ \E creds \in Credentials : OpenObjectManager(creds)

SpecSession == InitSession /\ [][NextSession]_vars

\* The config block of the credentials c, as the claim names it.
ConfigBlock(c) ==
    IF c = NoCreds THEN <<"config.json">>
    ELSE <<"users.">> \o c.username \o <<".config.json">>

====
